---- MODULE Spec2Model ----
(***************************************************************************)
(* Market-data alignment and derivation core of the newsletter dashboard:  *)
(* the shared registry (data/marketData), the quarterly implied-cut ladder *)
(* (QuartlyCuts) and the table components that render aligned values.     *)
(*                                                                         *)
(* Units.  A timestamp is a whole number of hours since 1970-01-01 UTC     *)
(* (the program's millisecond timestamps divided by 3 600 000; every       *)
(* timestamp the program builds is a UTC midnight, so nothing is lost).    *)
(* A price, rate or spread is a whole number of hundredths.  A nullable    *)
(* value is a sequence: <<>> is null, <<v>> is the value v.                *)
(***************************************************************************)
EXTENDS Integers, Sequences, FiniteSets, TLC

VARIABLES
  alignPoints,   \* resolveAlignedPointIndex: the `points` argument
  alignCall,     \* the alignment function last called, with its arguments
  alignRet,      \* the value that call returned
  dateCase,      \* the month, day, year and shape the date token was written from
  dateRaw,       \* parseUsDateToUtcTime: the `raw` argument, a sequence of characters
  dateRet,       \* what parseUsDateToUtcTime returned for it ("pending" before the call)
  durationDataCsv,   \* data/duration_data.csv: a sequence of lines
  equityDataCsv,     \* data/equity_data.csv: a sequence of lines
  treasuryRatesCsv,  \* the treasury files in load order, each a sequence of lines
  TREASURY_SERIES,         \* the registry: what each parser made of the raw files
  FED_FUTURES_SNAPSHOTS,
  CREDIT_SPREAD_SERIES,
  EFFR_SERIES,
  MAJOR_INDEX_SERIES,
  WATCHLIST_STOX_SERIES,
  INDUSTRY_SERIES,
  selectedId,     \* NewsletterProvider: the selectedId state
  cutsMemo,       \* QuartlyCuts: the memoized data and the selection it was computed for
  majorMemo,      \* MajorIndexes: the memoized rows
  industryMemo,   \* IndustryOverview: the memoized rows
  getterRet,      \* the registry getter last called and what it returned
  fnInput,        \* a derivation function's inputs, as drawn
  fnCall,         \* the derivation function last called, with its other arguments
  fnRet           \* the value that call returned

alignVars == <<alignPoints, alignCall, alignRet>>

dateVars == <<dateCase, dateRaw, dateRet>>

fnVars == <<fnInput, fnCall, fnRet>>

rawVars == <<durationDataCsv, equityDataCsv, treasuryRatesCsv>>

registryVars ==
  <<TREASURY_SERIES, FED_FUTURES_SNAPSHOTS, CREDIT_SPREAD_SERIES, EFFR_SERIES,
    MAJOR_INDEX_SERIES, WATCHLIST_STOX_SERIES, INDUSTRY_SERIES>>

viewVars == <<selectedId, cutsMemo, majorMemo, industryMemo, getterRet>>

vars == <<alignVars, fnVars, dateVars, rawVars, registryVars, viewVars>>

-----------------------------------------------------------------------------
(* Nullable values *)

Null == <<>>

Some(v) == <<v>>

-----------------------------------------------------------------------------
(* Calendar arithmetic of the JavaScript Date built-ins the code calls *)

\* One day, in the model's time unit (hours).
DAY_MS == 24

\* ECMA-262 DaysInYear(y) = 366.
InLeapYear(y) == y % 4 = 0 /\ (y % 100 # 0 \/ y % 400 = 0)

\* ECMA-262 DayFromYear(y): the day number (days since 1970-01-01) of 1 January of y.
DayFromYear(y) ==
  365 * (y - 1970) + (y - 1969) \div 4 - (y - 1901) \div 100 + (y - 1601) \div 400

\* Days of the year before the 0-based month m (m = 12: the length of the year).
MonthStartDay(y, m) ==
  <<0, 31, 59, 90, 120, 151, 181, 212, 243, 273, 304, 334, 365>>[m + 1]
    + (IF InLeapYear(y) /\ m >= 2 THEN 1 ELSE 0)

\* The year whose days include `day`, which is `guess` or one of its neighbours.
YearNear(day, guess) ==
  IF day < DayFromYear(guess) THEN guess - 1
  ELSE IF day < DayFromYear(guess + 1) THEN guess
  ELSE IF day < DayFromYear(guess + 2) THEN guess + 1
  ELSE guess + 2

\* ECMA-262 YearFromTime, on a day number.
YearFromDay(day) == YearNear(day, 1970 + day \div 366)

\* The 0-based month of year y that holds the day numbered `day`.
MonthInYear(y, day) ==
  CHOOSE m \in 0..11 :
    /\ MonthStartDay(y, m) <= day - DayFromYear(y)
    /\ day - DayFromYear(y) < MonthStartDay(y, m + 1)

\* ECMA-262 MonthFromTime (0-based), on a day number.
MonthFromDay(day) == MonthInYear(YearFromDay(day), day)

\* ECMA-262 DateFromTime, on a day number of year y.
DateInYear(y, day) == day - DayFromYear(y) - MonthStartDay(y, MonthInYear(y, day)) + 1

\* ECMA-262 MakeDay(year, month, date) - month and date may lie outside their
\* calendar range and then roll over into the neighbouring months and years.
MakeDay(year, month, date) ==
  DayFromYear(year + month \div 12) + MonthStartDay(year + month \div 12, month % 12)
    + date - 1

\* Day number of the civil date y-m-d, m in 1..12.
DaysFromCivil(y, m, d) == MakeDay(y, m - 1, d)

\* Date.UTC(year, monthIndex, day); a year in 0..99 means 1900 + year.
DateUTC(year, monthIndex, day) ==
  MakeDay(IF year >= 0 /\ year <= 99 THEN 1900 + year ELSE year, monthIndex, day) * DAY_MS

getUTCFullYear(time) == YearFromDay(time \div DAY_MS)

\* 0-based month, as Date.prototype.getUTCMonth.
getUTCMonth(time) == MonthFromDay(time \div DAY_MS)

getUTCDate(time) == DateInYear(YearFromDay(time \div DAY_MS), time \div DAY_MS)

\* 0 = Sunday .. 6 = Saturday; 1970-01-01 was a Thursday.
getUTCDay(time) == (time \div DAY_MS + 4) % 7

-----------------------------------------------------------------------------
(* data/marketData: week key and week-aware alignment *)

MAX_ALIGNMENT_GAP_DAYS_DEFAULT == 21

\* The key `${year}-${weekNumber}` is modelled as the pair <<year, weekNumber>>.
\* target.getUTCDay() || 7
\* Mutant: Sunday keeps getUTCDay's 0 instead of becoming 7.
DayNumber_SundayZero(dow) == dow

DayNumber(dow) == IF dow = 0 THEN 7 ELSE dow

\* target.setUTCDate(target.getUTCDate() + 4 - dayNumber): the Thursday of the
\* week of the midnight `target`.
WeekThursday(target) == target + (4 - DayNumber(getUTCDay(target))) * DAY_MS

\* Math.ceil(((target - yearStart) / DAY_MS + 1) / 7)
WeekNumber(target, yearStart) == ((target - yearStart) \div DAY_MS + 1 + 6) \div 7

WeekKeyOfThursday(target) ==
  <<getUTCFullYear(target), WeekNumber(target, DateUTC(getUTCFullYear(target), 0, 1))>>

getIsoWeekKeyFromTime(time) ==
  WeekKeyOfThursday(
    WeekThursday(DateUTC(getUTCFullYear(time), getUTCMonth(time), getUTCDate(time))))

\* First loop of resolveAlignedPointIndex, from index i downwards (indices
\* are JavaScript's: 0-based, -1 for not found).
RECURSIVE SameWeekScan(_, _, _, _)
SameWeekScan(points, targetTime, targetWeek, i) ==
  IF i < 0 THEN -1
  ELSE IF /\ points[i + 1].time <= targetTime
          /\ getIsoWeekKeyFromTime(points[i + 1].time) = targetWeek
       THEN i
       ELSE SameWeekScan(points, targetTime, targetWeek, i - 1)

\* Second loop of resolveAlignedPointIndex.
RECURSIVE PriorScan(_, _, _, _)
PriorScan(points, targetTime, maxGapMs, i) ==
  IF i < 0 THEN -1
  ELSE IF points[i + 1].time <= targetTime
       THEN (IF targetTime - points[i + 1].time <= maxGapMs THEN i ELSE -1)
       ELSE PriorScan(points, targetTime, maxGapMs, i - 1)

\* Mutant: the same-week loop forgets `point.time <= targetTime`.
RECURSIVE SameWeekScanAnyTime(_, _, _)
SameWeekScanAnyTime(points, targetWeek, i) ==
  IF i < 0 THEN -1
  ELSE IF getIsoWeekKeyFromTime(points[i + 1].time) = targetWeek
       THEN i
       ELSE SameWeekScanAnyTime(points, targetWeek, i - 1)

\* Mutant: the second loop's result is dropped.
SameWeekOrPrior_SameWeekOnly(sameWeek, prior) == sameWeek

\* The same-week index when there is one, the prior index otherwise.
SameWeekOrPrior(sameWeek, prior) == IF sameWeek >= 0 THEN sameWeek ELSE prior

resolveAlignedPointIndex_NoUpperBound(points, targetTime, maxGapDays) ==
  SameWeekOrPrior(
    SameWeekScanAnyTime(points, getIsoWeekKeyFromTime(targetTime), Len(points) - 1),
    PriorScan(points, targetTime, maxGapDays * DAY_MS, Len(points) - 1))

\* Mutant: the same-week loop scans forward and returns the first match.
RECURSIVE SameWeekScanForward(_, _, _, _)
SameWeekScanForward(points, targetTime, targetWeek, i) ==
  IF i >= Len(points) THEN -1
  ELSE IF /\ points[i + 1].time <= targetTime
          /\ getIsoWeekKeyFromTime(points[i + 1].time) = targetWeek
       THEN i
       ELSE SameWeekScanForward(points, targetTime, targetWeek, i + 1)

resolveAlignedPointIndex_FirstMatch(points, targetTime, maxGapDays) ==
  SameWeekOrPrior(
    SameWeekScanForward(points, targetTime, getIsoWeekKeyFromTime(targetTime), 0),
    PriorScan(points, targetTime, maxGapDays * DAY_MS, Len(points) - 1))

\* Mutant: the gap test is strict.
RECURSIVE PriorScanStrict(_, _, _, _)
PriorScanStrict(points, targetTime, maxGapMs, i) ==
  IF i < 0 THEN -1
  ELSE IF points[i + 1].time <= targetTime
       THEN (IF targetTime - points[i + 1].time < maxGapMs THEN i ELSE -1)
       ELSE PriorScanStrict(points, targetTime, maxGapMs, i - 1)

resolveAlignedPointIndex_StrictGap(points, targetTime, maxGapDays) ==
  SameWeekOrPrior(
    SameWeekScan(points, targetTime, getIsoWeekKeyFromTime(targetTime), Len(points) - 1),
    PriorScanStrict(points, targetTime, maxGapDays * DAY_MS, Len(points) - 1))

\* Mutant: the second loop scans forward and returns the oldest point in reach.
RECURSIVE PriorScanForward(_, _, _, _)
PriorScanForward(points, targetTime, maxGapMs, i) ==
  IF i >= Len(points) THEN -1
  ELSE IF /\ points[i + 1].time <= targetTime
          /\ targetTime - points[i + 1].time <= maxGapMs
       THEN i
       ELSE PriorScanForward(points, targetTime, maxGapMs, i + 1)

resolveAlignedPointIndex_OldestPrior(points, targetTime, maxGapDays) ==
  SameWeekOrPrior(
    SameWeekScan(points, targetTime, getIsoWeekKeyFromTime(targetTime), Len(points) - 1),
    PriorScanForward(points, targetTime, maxGapDays * DAY_MS, 0))

resolveAlignedPointIndex(points, targetTime, maxGapDays) ==
  SameWeekOrPrior(
    SameWeekScan(points, targetTime, getIsoWeekKeyFromTime(targetTime), Len(points) - 1),
    PriorScan(points, targetTime, maxGapDays * DAY_MS, Len(points) - 1))

\* sortedTimes.map((time) => ({ time }))
TimesToPoints(sortedTimes) ==
  [i \in 1..Len(sortedTimes) |-> [time |-> sortedTimes[i]]]

\* index >= 0 ? items[index] : null
ItemAt(items, index) == IF index >= 0 THEN Some(items[index + 1]) ELSE Null

resolveAlignedTime(sortedTimes, targetTime, maxGapDays) ==
  ItemAt(sortedTimes,
         resolveAlignedPointIndex(TimesToPoints(sortedTimes), targetTime, maxGapDays))

getAlignedPoint(points, targetTime, maxGapDays) ==
  ItemAt(points, resolveAlignedPointIndex(points, targetTime, maxGapDays))

-----------------------------------------------------------------------------
(* data/marketData: M/D/YYYY date tokens.  A string is a sequence of           *)
(* one-character strings.                                                   *)

DigitChars == <<"0", "1", "2", "3", "4", "5", "6", "7", "8", "9">>

IsDigit(c) == \E i \in 1..10 : DigitChars[i] = c

DigitValue(c) == (CHOOSE i \in 1..10 : DigitChars[i] = c) - 1

\* String.prototype.trim, on the blank character.
RECURSIVE Trim(_)
Trim(s) ==
  IF Len(s) = 0 THEN s
  ELSE IF s[1] = " " THEN Trim(Tail(s))
  ELSE IF s[Len(s)] = " " THEN Trim(SubSeq(s, 1, Len(s) - 1))
  ELSE s

\* replace(/^"|"$/g, ""): one leading and one trailing double quote are dropped.
StripQuotes(s) ==
  LET head == IF Len(s) > 0 /\ s[1] = "\"" THEN Tail(s) ELSE s
  IN  IF Len(head) > 0 /\ head[Len(head)] = "\""
      THEN SubSeq(head, 1, Len(head) - 1)
      ELSE head

\* Number(text) of a string of decimal digits.
RECURSIVE DigitsToNumber(_)
DigitsToNumber(s) ==
  IF Len(s) = 0 THEN 0
  ELSE 10 * DigitsToNumber(SubSeq(s, 1, Len(s) - 1)) + DigitValue(s[Len(s)])

\* String(n) for an integer n >= 0, left-padded with zeros to `width` digits.
RECURSIVE Decimal(_, _)
Decimal(n, width) ==
  IF n < 10 /\ width <= 1 THEN <<DigitChars[n + 1]>>
  ELSE Append(Decimal(n \div 10, width - 1), DigitChars[(n % 10) + 1])

\* value.match(/^(\d{1,2})\/(\d{1,2})\/(\d{4})$/): the three groups, or <<>>.
MatchUsDate(value) ==
  LET slashes == {i \in 1..Len(value) : value[i] = "/"}
  IN  IF Cardinality(slashes) # 2 THEN <<>>
      ELSE LET p1 == CHOOSE i \in slashes : \A j \in slashes : i <= j
               p2 == CHOOSE i \in slashes : \A j \in slashes : j <= i
               g1 == SubSeq(value, 1, p1 - 1)
               g2 == SubSeq(value, p1 + 1, p2 - 1)
               g3 == SubSeq(value, p2 + 1, Len(value))
               digits(g) == \A i \in 1..Len(g) : IsDigit(g[i])
           IN  IF /\ Len(g1) \in 1..2 /\ digits(g1)
                  /\ Len(g2) \in 1..2 /\ digits(g2)
                  /\ Len(g3) = 4 /\ digits(g3)
               THEN <<g1, g2, g3>>
               ELSE <<>>

\* Number.isInteger of a Number(text) result.
NumberIsInteger(n) == n \in Int

parseUsDateToUtcTime(raw) ==
  LET value == StripQuotes(Trim(raw))
      match == MatchUsDate(value)
  IN  IF match = <<>> THEN Null
      ELSE LET month == DigitsToNumber(match[1])
               day   == DigitsToNumber(match[2])
               year  == DigitsToNumber(match[3])
           IN  IF ~NumberIsInteger(month) \/ ~NumberIsInteger(day) \/ ~NumberIsInteger(year)
               THEN Null
               ELSE Some(DateUTC(year, month - 1, day))

-----------------------------------------------------------------------------
(* data/marketData: delimited text.  A file is a sequence of lines, a line a   *)
(* sequence of characters; a number is a whole number of hundredths.        *)

LowerChars == <<"a", "b", "c", "d", "e", "f", "g", "h", "i", "j", "k", "l", "m",
                "n", "o", "p", "q", "r", "s", "t", "u", "v", "w", "x", "y", "z">>

UpperChars == <<"A", "B", "C", "D", "E", "F", "G", "H", "I", "J", "K", "L", "M",
                "N", "O", "P", "Q", "R", "S", "T", "U", "V", "W", "X", "Y", "Z">>

toUpperCase(s) ==
  [i \in 1..Len(s) |->
     IF \E k \in 1..26 : LowerChars[k] = s[i]
     THEN UpperChars[CHOOSE k \in 1..26 : LowerChars[k] = s[i]]
     ELSE s[i]]

toLowerCase(s) ==
  [i \in 1..Len(s) |->
     IF \E k \in 1..26 : UpperChars[k] = s[i]
     THEN LowerChars[CHOOSE k \in 1..26 : UpperChars[k] = s[i]]
     ELSE s[i]]

\* Positions of the commas that split a line: those followed by an even number
\* of double quotes, /,(?=(?:[^"]*"[^"]*")*[^"]*$)/.
SplitCommas(line) ==
  {i \in 1..Len(line) :
     /\ line[i] = ","
     /\ Cardinality({j \in (i + 1)..Len(line) : line[j] = "\""}) % 2 = 0}

RECURSIVE CsvPartsFrom(_, _)
CsvPartsFrom(line, from) ==
  LET commas == {i \in SplitCommas(line) : i >= from}
  IN  IF commas = {} THEN <<Trim(SubSeq(line, from, Len(line)))>>
      ELSE LET p == CHOOSE i \in commas : \A j \in commas : i <= j
           IN  <<Trim(SubSeq(line, from, p - 1))>> \o CsvPartsFrom(line, p + 1)

parseCsvLine(line) == CsvPartsFrom(line, 1)

\* parts[index] ?? "" for a 0-based index.
PartAt(parts, index) == IF index + 1 <= Len(parts) THEN parts[index + 1] ELSE <<>>

\* Number(text) followed by Number.isFinite: the value in hundredths, or Null
\* for NaN and the infinities.  Blank text is 0.  The texts the model draws
\* carry at most two decimals; further decimals are cut.
Number(text) ==
  LET t       == Trim(text)
      neg     == Len(t) > 0 /\ t[1] = "-"
      body    == IF neg THEN Tail(t) ELSE t
      dots    == {i \in 1..Len(body) : body[i] = "."}
      dot     == IF dots = {} THEN Len(body) + 1 ELSE CHOOSE i \in dots : TRUE
      whole   == SubSeq(body, 1, dot - 1)
      frac    == SubSeq(body, dot + 1, Len(body))
      frac2   == SubSeq(frac \o <<"0", "0">>, 1, 2)
      digits(g) == \A i \in 1..Len(g) : IsDigit(g[i])
  IN  IF Len(t) = 0 THEN Some(0)
      ELSE IF \/ Cardinality(dots) > 1
              \/ ~digits(whole) \/ ~digits(frac)
              \/ Len(whole) + Len(frac) = 0
           THEN Null
           ELSE Some((IF neg THEN -1 ELSE 1)
                       * (100 * DigitsToNumber(whole) + DigitsToNumber(frac2)))

\* Math.round of a number of hundredths, as a whole number.
MathRound(hundredths) == (hundredths + 50) \div 100

EXCEL_EPOCH_UTC == DateUTC(1899, 11, 30)

\* `serial` in hundredths of a day.
toExcelUtcTime(serial) == EXCEL_EPOCH_UTC + MathRound(serial) * DAY_MS

\* A Map is the sequence of its <<key, value>> entries in insertion order.
MapHas(map, key) == \E i \in 1..Len(map) : map[i][1] = key

MapGet(map, key) == map[CHOOSE i \in 1..Len(map) : map[i][1] = key][2]

\* map.get(key) ?? fallback
MapGetOr(map, key, fallback) ==
  IF MapHas(map, key) THEN MapGet(map, key) ELSE fallback

\* Mutant: Map.prototype.set that keeps the value a key already has.
MapSet_KeepFirst(map, key, value) ==
  IF MapHas(map, key) THEN map ELSE Append(map, <<key, value>>)

\* Map.prototype.set: a present key keeps its place and takes the new value.
MapSet(map, key, value) ==
  IF MapHas(map, key)
  THEN [i \in 1..Len(map) |-> IF map[i][1] = key THEN <<key, value>> ELSE map[i]]
  ELSE Append(map, <<key, value>>)

\* Array.prototype.sort of entries by ascending first component (the keys of
\* a Map are distinct, so the order of equal keys never matters).
RECURSIVE SortByKey(_)
SortByKey(entries) ==
  IF Len(entries) <= 1 THEN entries
  ELSE LET least == CHOOSE i \in 1..Len(entries) :
                      \A j \in 1..Len(entries) :
                        entries[i][1] < entries[j][1] \/ (entries[i][1] = entries[j][1] /\ i <= j)
           rest  == [k \in 1..(Len(entries) - 1) |->
                       IF k < least THEN entries[k] ELSE entries[k + 1]]
       IN  <<entries[least]>> \o SortByKey(rest)

\* Mutant: the entries are returned in insertion order.
dedupeSortSeries_Unsorted(seriesMap) ==
  [i \in 1..Len(seriesMap) |-> [time |-> seriesMap[i][1], value |-> seriesMap[i][2]]]

dedupeSortSeries(seriesMap) ==
  LET sorted == SortByKey(seriesMap)
  IN  [i \in 1..Len(sorted) |-> [time |-> sorted[i][1], value |-> sorted[i][2]]]

\* A for...of loop over a sequence: Step(state, item) is one iteration.
RECURSIVE ForEach(_, _, _)
ForEach(Step(_, _), lines, state) ==
  IF Len(lines) = 0 THEN state
  ELSE ForEach(Step, Tail(lines), Step(state, lines[1]))

-----------------------------------------------------------------------------
(* data/marketData: instrument tables and the parsers of the registry *)

SeqRange(q) == {q[i] : i \in 1..Len(q)}

TREASURY_INSTRUMENT_ORDER ==
  <<<<"U", "S", "1", "M">>,
  <<"U", "S", "2", "M">>,
  <<"U", "S", "3", "M">>,
  <<"U", "S", "4", "M">>,
  <<"U", "S", "6", "M">>,
  <<"U", "S", "1", "Y">>,
  <<"U", "S", "2", "Y">>,
  <<"U", "S", "3", "Y">>,
  <<"U", "S", "5", "Y">>,
  <<"U", "S", "7", "Y">>,
  <<"U", "S", "1", "0", "Y">>,
  <<"U", "S", "2", "0", "Y">>,
  <<"U", "S", "3", "0", "Y">>>>

CREDIT_SPREAD_ORDER ==
  <<<<"I", "G">>,
  <<"A", "A">>,
  <<"B", "B", "B">>,
  <<"H", "Y">>,
  <<"B", "B">>,
  <<"C", "C", "C">>>>

MAJOR_INDEX_ORDER ==
  <<<<"M", "S", "C", "I">>,
  <<"S", "P", "X">>,
  <<"N", "D", "X">>,
  <<"R", "2", "0", "0", "0">>,
  <<"I", "J", "R">>,
  <<"D", "A", "X">>,
  <<"S", "T", "O", "X", "X", "6", "0", "0">>,
  <<"F", "T", "S", "E">>,
  <<"A", "E", "X">>,
  <<"N", "I", "K", "K", "E", "I">>>>

\* Map from alias to display ticker, built from MAJOR_INDEX_ALIASES.
MAJOR_ALIAS_TO_DISPLAY ==
  <<<<<<"M", "S", "C", "I">>, <<"M", "S", "C", "I">>>>,
  <<<<"S", "P", "X">>, <<"S", "P", "X">>>>,
  <<<<"S", "X", "P">>, <<"S", "P", "X">>>>,
  <<<<"N", "D", "X">>, <<"N", "D", "X">>>>,
  <<<<"R", "2", "0", "0", "0">>, <<"R", "2", "0", "0", "0">>>>,
  <<<<"I", "J", "R">>, <<"I", "J", "R">>>>,
  <<<<"D", "A", "X">>, <<"D", "A", "X">>>>,
  <<<<"S", "T", "O", "X", "X", "6", "0", "0">>, <<"S", "T", "O", "X", "X", "6", "0", "0">>>>,
  <<<<"F", "T", "S", "E">>, <<"F", "T", "S", "E">>>>,
  <<<<"A", "E", "X">>, <<"A", "E", "X">>>>,
  <<<<"N", "I", "K", "K", "E", "I">>, <<"N", "I", "K", "K", "E", "I">>>>>>

TREASURY_COLUMN_TO_TICKER ==
  <<<<<<"1", " ", "M", "O">>, <<"U", "S", "1", "M">>>>,
  <<<<"2", " ", "M", "O">>, <<"U", "S", "2", "M">>>>,
  <<<<"3", " ", "M", "O">>, <<"U", "S", "3", "M">>>>,
  <<<<"4", " ", "M", "O">>, <<"U", "S", "4", "M">>>>,
  <<<<"6", " ", "M", "O">>, <<"U", "S", "6", "M">>>>,
  <<<<"1", " ", "Y", "R">>, <<"U", "S", "1", "Y">>>>,
  <<<<"2", " ", "Y", "R">>, <<"U", "S", "2", "Y">>>>,
  <<<<"3", " ", "Y", "R">>, <<"U", "S", "3", "Y">>>>,
  <<<<"5", " ", "Y", "R">>, <<"U", "S", "5", "Y">>>>,
  <<<<"7", " ", "Y", "R">>, <<"U", "S", "7", "Y">>>>,
  <<<<"1", "0", " ", "Y", "R">>, <<"U", "S", "1", "0", "Y">>>>,
  <<<<"2", "0", " ", "Y", "R">>, <<"U", "S", "2", "0", "Y">>>>,
  <<<<"3", "0", " ", "Y", "R">>, <<"U", "S", "3", "0", "Y">>>>>>

TREASURY_TICKER_SET == SeqRange(TREASURY_INSTRUMENT_ORDER)

\* "us", "eu" or Null.
classifyIndustryRegion(ticker) ==
  LET upper == toUpperCase(Trim(ticker))
  IN  IF Len(upper) >= 2 /\ SubSeq(upper, 1, 2) = <<"X", "L">> THEN Some("us")
      ELSE IF Len(upper) >= 2 /\ SubSeq(upper, 1, 2) = <<"E", "X">> THEN Some("eu")
      ELSE Null

\* What one line gives parseEffrSeries: Null (skipped) or Some([time, value]).
EffrRowPoint(line) ==
  LET parts     == parseCsvLine(line)
      excelDate == Number(PartAt(parts, 0))
      ticker    == toUpperCase(Trim(PartAt(parts, 2)))
      value     == Number(PartAt(parts, 4))
  IN  IF Len(parts) < 5 THEN Null
      ELSE IF ticker # <<"E", "F", "F", "R">> \/ excelDate = Null \/ value = Null THEN Null
      ELSE Some([time |-> toExcelUtcTime(excelDate[1]), value |-> value[1]])

parseEffrSeries(rawCsv) ==
  LET Step(seriesMap, line) ==
        LET row == EffrRowPoint(line)
        IN  IF row = Null THEN seriesMap
            ELSE MapSet(seriesMap, row[1].time, row[1].value)
  IN  dedupeSortSeries(ForEach(Step, rawCsv, <<>>))

\* What one line gives parseCreditSpreadSeries: Null or Some([ticker, time, value]).
CreditRowPoint(line) ==
  LET parts     == parseCsvLine(line)
      excelDate == Number(PartAt(parts, 0))
      ticker    == toUpperCase(Trim(PartAt(parts, 2)))
      category  == toLowerCase(Trim(PartAt(parts, 3)))
      value     == Number(PartAt(parts, 4))
  IN  IF Len(parts) < 5 THEN Null
      ELSE IF \/ category # <<"s", "p", "r", "e", "a", "d">>
              \/ ticker \notin SeqRange(CREDIT_SPREAD_ORDER)
              \/ excelDate = Null \/ value = Null
           THEN Null
           ELSE Some([ticker |-> ticker, time |-> toExcelUtcTime(excelDate[1]),
                      value |-> value[1]])

\* The loop shared by the parsers that keep one Map per instrument of a fixed
\* list: RowPoint(line) is the row's point, or Null when the row is skipped.
ParseByTicker(RowPoint(_), order, rawCsv) ==
  LET Step(seriesMaps, line) ==
        LET row == RowPoint(line)
        IN  IF row = Null THEN seriesMaps
            ELSE [seriesMaps EXCEPT ![row[1].ticker] = MapSet(@, row[1].time, row[1].value)]
      filled == ForEach(Step, rawCsv, [ticker \in SeqRange(order) |-> <<>>])
  IN  [ticker \in SeqRange(order) |-> dedupeSortSeries(filled[ticker])]

parseCreditSpreadSeries(rawCsv) == ParseByTicker(CreditRowPoint, CREDIT_SPREAD_ORDER, rawCsv)

\* What one line gives parseMajorIndexSeries: Null or Some([ticker, time, value]).
MajorRowPoint(line) ==
  LET parts     == parseCsvLine(line)
      excelDate == Number(PartAt(parts, 0))
      tickerRaw == toUpperCase(Trim(PartAt(parts, 2)))
      value     == Number(PartAt(parts, 4))
  IN  IF Len(parts) < 5 THEN Null
      ELSE IF \/ ~MapHas(MAJOR_ALIAS_TO_DISPLAY, tickerRaw)
              \/ excelDate = Null \/ value = Null
           THEN Null
           ELSE Some([ticker |-> MapGet(MAJOR_ALIAS_TO_DISPLAY, tickerRaw),
                      time |-> toExcelUtcTime(excelDate[1]), value |-> value[1]])

parseMajorIndexSeries(rawCsv) == ParseByTicker(MajorRowPoint, MAJOR_INDEX_ORDER, rawCsv)

\* What one line gives parseWatchlistStoxSeries: Null or Some([ticker, time, value]).
StoxRowPoint(line) ==
  LET parts     == parseCsvLine(line)
      excelDate == Number(PartAt(parts, 0))
      ticker    == toUpperCase(Trim(PartAt(parts, 2)))
      tag       == toLowerCase(Trim(PartAt(parts, 3)))
      value     == Number(PartAt(parts, 4))
  IN  IF Len(parts) < 5 THEN Null
      ELSE IF \/ tag # <<"s", "t", "o", "x">> \/ Len(ticker) = 0
              \/ excelDate = Null \/ value = Null
           THEN Null
           ELSE Some([ticker |-> ticker, time |-> toExcelUtcTime(excelDate[1]),
                      value |-> value[1]])

\* Mutant: a ticker's Map is filled by its first row only.
WatchlistRowSet_FirstRowOnly(state, ticker, time, value) ==
  [seriesMaps |->
     IF MapHas(state.seriesMaps, ticker) THEN state.seriesMaps
     ELSE MapSet(state.seriesMaps, ticker, MapSet(<<>>, time, value)),
   tickersByTime |->
     IF ticker \in SeqRange(MapGetOr(state.tickersByTime, time, <<>>))
     THEN state.tickersByTime
     ELSE MapSet(state.tickersByTime, time,
                 Append(MapGetOr(state.tickersByTime, time, <<>>), ticker))]

\* One accepted row: its value goes into the ticker's Map, and the ticker into
\* the date's list unless the list has it.
WatchlistRowSet(state, ticker, time, value) ==
  [seriesMaps |->
     MapSet(state.seriesMaps, ticker,
            MapSet(MapGetOr(state.seriesMaps, ticker, <<>>), time, value)),
   tickersByTime |->
     IF ticker \in SeqRange(MapGetOr(state.tickersByTime, time, <<>>))
     THEN state.tickersByTime
     ELSE MapSet(state.tickersByTime, time,
                 Append(MapGetOr(state.tickersByTime, time, <<>>), ticker))]

WatchlistStep(state, row) ==
  IF row = Null THEN state
  ELSE WatchlistRowSet(state, row[1].ticker, row[1].time, row[1].value)

\* The keys of a Map in insertion order.
MapKeys(map) == [i \in 1..Len(map) |-> map[i][1]]

\* [...map.keys()].sort((a, b) => a - b)
SortTimes(map) == MapKeys(SortByKey(map))

WatchlistOutput(filled) ==
  [seriesByTicker |->
     [i \in 1..Len(filled.seriesMaps) |->
        <<filled.seriesMaps[i][1], dedupeSortSeries(filled.seriesMaps[i][2])>>],
   tickersByTime |-> filled.tickersByTime,
   sortedTimes |-> SortTimes(filled.tickersByTime)]

parseWatchlistStoxSeries(rawCsv) ==
  LET Step(state, line) == WatchlistStep(state, StoxRowPoint(line))
  IN  WatchlistOutput(ForEach(Step, rawCsv, [seriesMaps |-> <<>>, tickersByTime |-> <<>>]))

\* What one line gives parseIndustrySeries: Null or
\* Some([industryId, region, time, value]).
IndustryRowPoint(line) ==
  LET parts       == parseCsvLine(line)
      excelDate   == Number(PartAt(parts, 0))
      category    == toLowerCase(Trim(PartAt(parts, 3)))
      price       == Number(PartAt(parts, 4))
      industryTag == Number(PartAt(parts, 5))
      region      == classifyIndustryRegion(Trim(PartAt(parts, 2)))
  IN  IF Len(parts) < 6 THEN Null
      ELSE IF \/ category # <<"e", "i", "n", "x">>
              \/ region = Null
              \/ excelDate = Null \/ price = Null
              \/ industryTag = Null
           THEN Null
           ELSE IF \/ industryTag[1] % 100 # 0
                   \/ industryTag[1] < 100 \/ industryTag[1] > 1100
                THEN Null
                ELSE Some([industryId |-> industryTag[1] \div 100, region |-> region[1],
                           time |-> toExcelUtcTime(excelDate[1]), value |-> price[1]])

IndustryStep(buckets, row) ==
  IF row = Null THEN buckets
  ELSE [buckets EXCEPT ![row[1].industryId][row[1].region] =
          MapSet(@, row[1].time, row[1].value)]

IndustryOutput(filled) ==
  [industryId \in 1..11 |->
     [us |-> dedupeSortSeries(filled[industryId].us),
      eu |-> dedupeSortSeries(filled[industryId].eu)]]

\* `buckets` is a Map of Maps created on first use; a missing entry reads as an
\* empty Map, which is what the output loop substitutes for it.
parseIndustrySeries(rawCsv) ==
  LET Step(buckets, line) == IndustryStep(buckets, IndustryRowPoint(line))
  IN  IndustryOutput(ForEach(Step, rawCsv,
                             [industryId \in 1..11 |-> [us |-> <<>>, eu |-> <<>>]]))

\* What one line gives parseFedFutures: Null or Some([time, contract]); the
\* contract's sequence and price are in hundredths.
FutureRowContract(line) ==
  LET parts     == parseCsvLine(line)
      excelDate == Number(PartAt(parts, 0))
      ticker    == Trim(PartAt(parts, 2))
      category  == toLowerCase(Trim(PartAt(parts, 3)))
      price     == Number(PartAt(parts, 4))
      sequence  == Number(PartAt(parts, 5))
  IN  IF Len(parts) < 6 THEN Null
      ELSE IF category # <<"f", "u", "t", "u", "r", "e">> THEN Null
      ELSE IF excelDate = Null \/ price = Null \/ sequence = Null THEN Null
      ELSE IF sequence[1] < 100 \/ sequence[1] > 1200 THEN Null
      ELSE Some([time |-> toExcelUtcTime(excelDate[1]),
                 contract |-> [sequence |-> sequence[1], ticker |-> ticker,
                               price |-> price[1]]])

FutureStep(snapshotsMap, row) ==
  IF row = Null THEN snapshotsMap
  ELSE MapSet(snapshotsMap, row[1].time,
              MapSet(MapGetOr(snapshotsMap, row[1].time, <<>>),
                     row[1].contract.sequence, row[1].contract))

\* The values of a Map in key order.
MapValues(map) == [i \in 1..Len(map) |-> map[i][2]]

SortedValues(map) == MapValues(SortByKey(map))

FutureOutput(sorted) ==
  [i \in 1..Len(sorted) |->
     [time |-> sorted[i][1], contracts |-> SortedValues(sorted[i][2])]]

parseFedFutures(rawCsv) ==
  LET Step(snapshotsMap, line) == FutureStep(snapshotsMap, FutureRowContract(line))
  IN  FutureOutput(SortByKey(ForEach(Step, rawCsv, <<>>)))

\* Mutant: the header names keep their case.
TreasuryHeader_KeepsCase(headerLine) ==
  LET cells == parseCsvLine(headerLine)
  IN  [i \in 1..Len(cells) |-> Trim(StripQuotes(cells[i]))]

\* The header cells of a treasury file as the parser reads them.
TreasuryHeader(headerLine) ==
  LET cells == parseCsvLine(headerLine)
  IN  [i \in 1..Len(cells) |-> toUpperCase(Trim(StripQuotes(cells[i])))]

\* The mapped columns of a header: [index (0-based), ticker], in header order.
RECURSIVE TreasuryColumnsFrom(_, _)
TreasuryColumnsFrom(header, position) ==
  IF position > Len(header) THEN <<>>
  ELSE (IF /\ MapHas(TREASURY_COLUMN_TO_TICKER, header[position])
           /\ MapGet(TREASURY_COLUMN_TO_TICKER, header[position]) \in TREASURY_TICKER_SET
        THEN <<[index |-> position - 1,
                ticker |-> MapGet(TREASURY_COLUMN_TO_TICKER, header[position])]>>
        ELSE <<>>)
       \o TreasuryColumnsFrom(header, position + 1)

\* The non-blank lines of a file.
RECURSIVE NonBlankLines(_)
NonBlankLines(lines) ==
  IF Len(lines) = 0 THEN <<>>
  ELSE (IF Len(Trim(lines[1])) > 0 THEN <<lines[1]>> ELSE <<>>) \o NonBlankLines(Tail(lines))

\* The points one data line gives, in column order: [ticker, time, value].
RECURSIVE TreasuryRowPointsFrom(_, _, _, _)
TreasuryRowPointsFrom(columns, parts, time, k) ==
  IF k > Len(columns) THEN <<>>
  ELSE LET value == Number(Trim(StripQuotes(PartAt(parts, columns[k].index))))
       IN  (IF value = Null THEN <<>>
            ELSE <<[ticker |-> columns[k].ticker, time |-> time, value |-> value[1]]>>)
           \o TreasuryRowPointsFrom(columns, parts, time, k + 1)

\* Mutant: a row with a non-finite cell in a mapped column gives no point.
TreasuryRowPoints_DropsWholeRow(columns, line) ==
  LET parts == parseCsvLine(line)
      time  == parseUsDateToUtcTime(PartAt(parts, 0))
  IN  IF time = Null THEN <<>>
      ELSE IF \E k \in 1..Len(columns) :
                Number(Trim(StripQuotes(PartAt(parts, columns[k].index)))) = Null
           THEN <<>>
           ELSE TreasuryRowPointsFrom(columns, parts, time[1], 1)

TreasuryRowPoints(columns, line) ==
  LET parts == parseCsvLine(line)
      time  == parseUsDateToUtcTime(PartAt(parts, 0))
  IN  IF time = Null THEN <<>>
      ELSE TreasuryRowPointsFrom(columns, parts, time[1], 1)

\* The points of one file in parse order; a file of fewer than two lines gives none.
TreasuryFilePoints(rawCsv) ==
  LET lines   == NonBlankLines(rawCsv)
      columns == TreasuryColumnsFrom(TreasuryHeader(lines[1]), 1)
      Step(points, line) == points \o TreasuryRowPoints(columns, line)
  IN  IF Len(lines) < 2 THEN <<>>
      ELSE ForEach(Step, Tail(lines), <<>>)

parseTreasurySeries(rawCsvFiles) ==
  LET FileStep(seriesByTicker, rawCsv) ==
        LET PointStep(maps, point) ==
              [maps EXCEPT ![point.ticker] = MapSet(@, point.time, point.value)]
        IN  ForEach(PointStep, TreasuryFilePoints(rawCsv), seriesByTicker)
      filled == ForEach(FileStep, rawCsvFiles, [ticker \in TREASURY_TICKER_SET |-> <<>>])
  IN  [ticker \in TREASURY_TICKER_SET |-> dedupeSortSeries(filled[ticker])]

\* components/RatesAndYield keeps its own copy of the instrument list and of
\* the wide-format parser; the copy repeats parseTreasurySeries statement for
\* statement over tables of the same content.
INSTRUMENT_ORDER == TREASURY_INSTRUMENT_ORDER

parseTreasuryInstrumentSeries(rawCsvFiles) ==
  [ticker \in SeqRange(INSTRUMENT_ORDER) |-> parseTreasurySeries(rawCsvFiles)[ticker]]

-----------------------------------------------------------------------------
(* Number formatting shared by the components.  A rate or price is in       *)
(* hundredths, so its two-decimal text is exact.                            *)

Abs(n) == IF n < 0 THEN -n ELSE n

\* value.toFixed(2) of a value given in hundredths.
ToFixed2(hundredths) ==
  (IF hundredths < 0 THEN <<"-">> ELSE <<>>)
    \o Decimal(Abs(hundredths) \div 100, 1) \o <<".">> \o Decimal(Abs(hundredths) % 100, 2)

PLACEHOLDER == <<"-", "-">>

-----------------------------------------------------------------------------
(* state/NewsletterContext: the newsletters and the selected one *)

\* parseNewsletterPath on a file named "MM-DD-YY - title.txt": the entry's id
\* and sortDate.
parseNewsletterPath(month, day, yy) ==
  [id |-> Decimal(month, 2) \o <<"-">> \o Decimal(day, 2) \o <<"-">> \o Decimal(yy, 2),
   sortDate |-> DateUTC(2000 + yy, month - 1, day)]

\* The newsletter files of the build, newest first.
NEWSLETTERS ==
  <<parseNewsletterPath(12, 29, 25), parseNewsletterPath(11, 17, 25),
    parseNewsletterPath(11, 3, 25)>>

NewsletterIds == {NEWSLETTERS[i].id : i \in 1..Len(NEWSLETTERS)}

\* NEWSLETTERS.find((entry) => entry.id === selectedId) ?? NEWSLETTERS[0] ?? null
SelectedEntry(id) ==
  IF \E i \in 1..Len(NEWSLETTERS) : NEWSLETTERS[i].id = id
  THEN Some(NEWSLETTERS[CHOOSE i \in 1..Len(NEWSLETTERS) :
                          /\ NEWSLETTERS[i].id = id
                          /\ \A j \in 1..(i - 1) : NEWSLETTERS[j].id # id])
  ELSE IF Len(NEWSLETTERS) > 0 THEN Some(NEWSLETTERS[1])
  ELSE Null

\* selected?.sortDate ?? null
ActiveTimeOf(id) ==
  IF SelectedEntry(id) = Null THEN Null ELSE Some(SelectedEntry(id)[1].sortDate)

\* point?.value ?? null
AlignedValue(point) == IF point = Null THEN Null ELSE Some(point[1].value)

-----------------------------------------------------------------------------
(* data/marketData: derivations.  A percent change is the exact fraction    *)
(* num / den with den > 0.                                                  *)

\* Mutant: a previous value of 0 is divided by.
computePercentChange_NoZeroCheck(current, previous) ==
  IF current = Null \/ previous = Null THEN Null
  ELSE IF previous[1] > 0
       THEN Some([num |-> current[1] - previous[1], den |-> previous[1]])
       ELSE Some([num |-> previous[1] - current[1], den |-> -previous[1]])

\* current / previous - 1, or Null.
computePercentChange(current, previous) ==
  IF current = Null \/ previous = Null THEN Null
  ELSE IF previous[1] = 0 THEN Null
  ELSE IF previous[1] > 0
       THEN Some([num |-> current[1] - previous[1], den |-> previous[1]])
       ELSE Some([num |-> previous[1] - current[1], den |-> -previous[1]])

computeNominalChange(current, previous) ==
  IF current = Null \/ previous = Null THEN Null
  ELSE Some(current[1] - previous[1])

SetMaximum(values) == CHOOSE v \in values : \A w \in values : w <= v

RollingHighOf(inWindow, upToEnd) ==
  IF inWindow # {} THEN Some(SetMaximum(inWindow))
  ELSE IF upToEnd # {} THEN Some(SetMaximum(upToEnd))
  ELSE Null

\* Mutant: no fallback to the older points when the window is empty.
computeRollingHigh_NoFallback(points, endTime, windowMs) ==
  RollingHighOf(
    {points[i].value : i \in {k \in 1..Len(points) :
        points[k].time <= endTime /\ points[k].time >= endTime - windowMs}},
    {})

computeRollingHigh(points, endTime, windowMs) ==
  RollingHighOf(
    {points[i].value : i \in {k \in 1..Len(points) :
        points[k].time <= endTime /\ points[k].time >= endTime - windowMs}},
    {points[i].value : i \in {k \in 1..Len(points) : points[k].time <= endTime}})

-----------------------------------------------------------------------------
(* components/MajorIndexes *)

TRAILING_52_WEEK_MS == 364 * DAY_MS

\* Math.abs(change) < 0.00005
IsNegligible(change) == Abs(change.num) * 20000 < change.den

\* Math.round(|change| * 10000): the hundredths of a percent toFixed(2) prints.
PercentHundredths(change) == (2 * Abs(change.num) * 10000 + change.den) \div (2 * change.den)

getChangeClassName(change) ==
  IF change = Null THEN "neutral"
  ELSE IF IsNegligible(change[1]) THEN "neutral"
  ELSE IF change[1].num > 0 THEN "positive" ELSE "negative"

Bracket(bracketed, text) ==
  IF bracketed THEN <<"[">> \o text \o <<"]">> ELSE text

formatPercent(change, bracketed) ==
  IF change = Null THEN Bracket(bracketed, <<"0", ".", "0", "0", "%">>)
  ELSE IF IsNegligible(change[1]) THEN Bracket(bracketed, <<"0", ".", "0", "0", "%">>)
  ELSE Bracket(bracketed,
               (IF change[1].num > 0 THEN <<"+">> ELSE <<"-">>)
                 \o ToFixed2(PercentHundredths(change[1])) \o <<"%">>)

\* The digits of n >= 0 in groups of three.
RECURSIVE GroupThousands(_)
GroupThousands(n) ==
  IF n < 1000 THEN Decimal(n, 1)
  ELSE GroupThousands(n \div 1000) \o <<",">> \o Decimal(n % 1000, 3)

\* Intl.NumberFormat("en-US") with exactly two fraction digits.
PriceFormat(hundredths) ==
  (IF hundredths < 0 THEN <<"-">> ELSE <<>>)
    \o GroupThousands(Abs(hundredths) \div 100) \o <<".">> \o Decimal(Abs(hundredths) % 100, 2)

formatPrice(price) ==
  IF price = Null THEN PLACEHOLDER ELSE PriceFormat(price[1])

MajorPlaceholderRow(ticker) ==
  [ticker |-> ticker, priceText |-> PLACEHOLDER,
   weekChangeText |-> PLACEHOLDER, weekChangeClassName |-> "neutral",
   lastWeekChangeText |-> PLACEHOLDER, lastWeekChangeClassName |-> "neutral",
   high52WeekText |-> PLACEHOLDER]

MajorRowOf(ticker, series, current, lastWeek, twoWeeks) ==
  IF current = Null THEN MajorPlaceholderRow(ticker)
  ELSE [ticker |-> ticker,
        priceText |-> formatPrice(AlignedValue(current)),
        weekChangeText |->
          formatPercent(computePercentChange(AlignedValue(current), AlignedValue(lastWeek)), FALSE),
        weekChangeClassName |->
          getChangeClassName(computePercentChange(AlignedValue(current), AlignedValue(lastWeek))),
        lastWeekChangeText |->
          formatPercent(computePercentChange(AlignedValue(lastWeek), AlignedValue(twoWeeks)), TRUE),
        lastWeekChangeClassName |->
          getChangeClassName(computePercentChange(AlignedValue(lastWeek), AlignedValue(twoWeeks))),
        high52WeekText |->
          formatPrice(computeRollingHigh(series, current[1].time, TRAILING_52_WEEK_MS))]

MajorIndexRow(ticker, series, activeTime) ==
  IF activeTime = Null \/ Len(series) = 0 THEN MajorPlaceholderRow(ticker)
  ELSE MajorRowOf(ticker, series,
         getAlignedPoint(series, activeTime[1], MAX_ALIGNMENT_GAP_DAYS_DEFAULT),
         getAlignedPoint(series, activeTime[1] - 7 * DAY_MS, MAX_ALIGNMENT_GAP_DAYS_DEFAULT),
         getAlignedPoint(series, activeTime[1] - 14 * DAY_MS, MAX_ALIGNMENT_GAP_DAYS_DEFAULT))

\* The useMemo body of MajorIndexes.
MajorIndexRows(activeTime, indexSeries) ==
  [i \in 1..Len(MAJOR_INDEX_ORDER) |->
     MajorIndexRow(MAJOR_INDEX_ORDER[i], indexSeries[MAJOR_INDEX_ORDER[i]], activeTime)]

-----------------------------------------------------------------------------
(* components/FullWatchlist *)

\* The callback of activeTickers.map: the row of one listed ticker.
FullWatchlistRow(ticker, series, snapshotTime) ==
  MajorRowOf(ticker, series,
    getAlignedPoint(series, snapshotTime, MAX_ALIGNMENT_GAP_DAYS_DEFAULT),
    getAlignedPoint(series, snapshotTime - 7 * DAY_MS, MAX_ALIGNMENT_GAP_DAYS_DEFAULT),
    getAlignedPoint(series, snapshotTime - 14 * DAY_MS, MAX_ALIGNMENT_GAP_DAYS_DEFAULT))

\* STOX_DATA.tickersByTime.get(snapshotTime) ?? []
ActiveTickers(stoxData, snapshotTime) == MapGetOr(stoxData.tickersByTime, snapshotTime, <<>>)

FullWatchlistRowsAt(snapshotTime, stoxData) ==
  IF snapshotTime = Null THEN <<>>
  ELSE [i \in 1..Len(ActiveTickers(stoxData, snapshotTime[1])) |->
          FullWatchlistRow(ActiveTickers(stoxData, snapshotTime[1])[i],
                           MapGetOr(stoxData.seriesByTicker,
                                    ActiveTickers(stoxData, snapshotTime[1])[i], <<>>),
                           snapshotTime[1])]

\* The useMemo body of FullWatchlist.
FullWatchlistRows(activeTime, stoxData) ==
  IF activeTime = Null THEN <<>>
  ELSE FullWatchlistRowsAt(
         resolveAlignedTime(stoxData.sortedTimes, activeTime[1], MAX_ALIGNMENT_GAP_DAYS_DEFAULT),
         stoxData)

-----------------------------------------------------------------------------
(* components/IndustryOverview *)

INDUSTRIES ==
  <<[id |-> 1, label |-> "Information Tech"],
    [id |-> 2, label |-> "Financials"],
    [id |-> 3, label |-> "Healthcare"],
    [id |-> 4, label |-> "Consumer Disc."],
    [id |-> 5, label |-> "Communication"],
    [id |-> 6, label |-> "Industrials"],
    [id |-> 7, label |-> "Consumer Staples"],
    [id |-> 8, label |-> "Energy"],
    [id |-> 9, label |-> "Materials"],
    [id |-> 10, label |-> "Utilities"],
    [id |-> 11, label |-> "Real Estate"]>>

IndustryOverview_getChangeClassName(change) ==
  IF change = Null THEN "neutral"
  ELSE IF IsNegligible(change[1]) THEN "neutral"
  ELSE IF change[1].num > 0 THEN "positive" ELSE "negative"

IndustryOverview_formatPercent(change, bracketed) ==
  IF change = Null THEN Bracket(bracketed, <<"0", ".", "0", "0", "%">>)
  ELSE IF IsNegligible(change[1]) THEN Bracket(bracketed, <<"0", ".", "0", "0", "%">>)
  ELSE Bracket(bracketed,
               (IF change[1].num > 0 THEN <<"+">> ELSE <<"-">>)
                 \o ToFixed2(PercentHundredths(change[1])) \o <<"%">>)

IndustryOverview_formatPrice(price) ==
  IF price = Null THEN PLACEHOLDER ELSE PriceFormat(price[1])

RegionPlaceholder ==
  [priceText |-> PLACEHOLDER,
   weekChangeText |-> PLACEHOLDER, weekChangeClassName |-> "neutral",
   lastWeekChangeText |-> PLACEHOLDER, lastWeekChangeClassName |-> "neutral"]

RegionMetricsOf(current, lastWeek, twoWeeks) ==
  IF current = Null THEN RegionPlaceholder
  ELSE [priceText |-> IndustryOverview_formatPrice(AlignedValue(current)),
        weekChangeText |->
          IndustryOverview_formatPercent(
            computePercentChange(AlignedValue(current), AlignedValue(lastWeek)), FALSE),
        weekChangeClassName |->
          IndustryOverview_getChangeClassName(
            computePercentChange(AlignedValue(current), AlignedValue(lastWeek))),
        lastWeekChangeText |->
          IndustryOverview_formatPercent(
            computePercentChange(AlignedValue(lastWeek), AlignedValue(twoWeeks)), TRUE),
        lastWeekChangeClassName |->
          IndustryOverview_getChangeClassName(
            computePercentChange(AlignedValue(lastWeek), AlignedValue(twoWeeks)))]

computeRegionMetrics(series, activeTime) ==
  RegionMetricsOf(
    getAlignedPoint(series, activeTime, MAX_ALIGNMENT_GAP_DAYS_DEFAULT),
    getAlignedPoint(series, activeTime - 7 * DAY_MS, MAX_ALIGNMENT_GAP_DAYS_DEFAULT),
    getAlignedPoint(series, activeTime - 14 * DAY_MS, MAX_ALIGNMENT_GAP_DAYS_DEFAULT))

IndustryRow(industry, series, activeTime) ==
  IF activeTime = Null
  THEN [id |-> industry.id, label |-> industry.label,
        us |-> RegionPlaceholder, eu |-> RegionPlaceholder]
  ELSE [id |-> industry.id, label |-> industry.label,
        us |-> computeRegionMetrics(series.us, activeTime[1]),
        eu |-> computeRegionMetrics(series.eu, activeTime[1])]

\* The useMemo body of IndustryOverview.
IndustryRows(activeTime, industrySeries) ==
  [i \in 1..Len(INDUSTRIES) |->
     IndustryRow(INDUSTRIES[i], industrySeries[INDUSTRIES[i].id], activeTime)]

-----------------------------------------------------------------------------
(* components/QuartlyCuts.  A cut is in basis points: the difference of two *)
(* rates in hundredths of a percent.                                        *)

MONTH_TO_NUMBER ==
  <<<<<<"J", "A", "N">>, 1>>,
    <<<<"F", "E", "B">>, 2>>,
    <<<<"M", "A", "R">>, 3>>,
    <<<<"A", "P", "R">>, 4>>,
    <<<<"M", "A", "Y">>, 5>>,
    <<<<"J", "U", "N">>, 6>>,
    <<<<"J", "U", "L">>, 7>>,
    <<<<"A", "U", "G">>, 8>>,
    <<<<"S", "E", "P">>, 9>>,
    <<<<"O", "C", "T">>, 10>>,
    <<<<"N", "O", "V">>, 11>>,
    <<<<"D", "E", "C">>, 12>>>>

\* Indexed by quarter 1..4.
MONTH_AFTER_QUARTER_CLOSE == <<4, 7, 10, 1>>

IsUpperLetter(c) == \E k \in 1..26 : UpperChars[k] = c

\* `Q${quarter}' ${String(year).slice(-2)}`
formatQuarterLabel(quarter, year) ==
  <<"Q">> \o Decimal(quarter, 1) \o <<"'", " ">> \o Decimal(year % 100, 2)

\* The groups of /^([A-Z]{3})\s+ZQ(\d{2})$/ in text, or <<>> without a match.
MatchZqTicker(text) ==
  IF /\ Len(text) >= 8
     /\ \A i \in 1..3 : IsUpperLetter(text[i])
     /\ \A i \in 4..(Len(text) - 4) : text[i] = " "
     /\ text[Len(text) - 3] = "Z" /\ text[Len(text) - 2] = "Q"
     /\ IsDigit(text[Len(text) - 1]) /\ IsDigit(text[Len(text)])
  THEN <<SubSeq(text, 1, 3), SubSeq(text, Len(text) - 1, Len(text))>>
  ELSE <<>>

\* Null or Some([month, year]).
parseZqTickerMonthYear(ticker) ==
  LET match == MatchZqTicker(toUpperCase(Trim(ticker)))
  IN  IF match = <<>> THEN Null
      ELSE IF ~MapHas(MONTH_TO_NUMBER, match[1]) THEN Null
      ELSE Some([month |-> MapGet(MONTH_TO_NUMBER, match[1]),
                 year |-> 2000 + DigitsToNumber(match[2])])

formatRate(value) ==
  IF value = Null THEN PLACEHOLDER ELSE ToFixed2(value[1])

\* value is in basis points, so Math.round(value * 10) / 10 is value itself.
formatBps(value) ==
  IF value = Null THEN PLACEHOLDER
  ELSE (IF value[1] > 0 THEN <<"+">> ELSE IF value[1] < 0 THEN <<"-">> ELSE <<>>)
       \o Decimal(Abs(value[1]), 1) \o <<".", "0", "b", "p">>

toneClass(value) ==
  IF value = Null THEN "neutral"
  ELSE IF value[1] = 0 THEN "neutral"
  ELSE IF value[1] < 0 THEN "positive" ELSE "negative"

\* Mutant: the year does not roll over after the fourth quarter.
getQuarterSequence_NoRollover(activeTime) ==
  [index \in 1..4 |->
     [quarter |-> ((getUTCMonth(activeTime) \div 3 + index - 1) % 4) + 1,
      year |-> getUTCFullYear(activeTime)]]

getQuarterSequence(activeTime) ==
  [index \in 1..4 |->
     [quarter |-> ((getUTCMonth(activeTime) \div 3 + index - 1) % 4) + 1,
      year |-> getUTCFullYear(activeTime) + (getUTCMonth(activeTime) \div 3 + index - 1) \div 4]]

\* The Map from <<month, year>> to implied rate one snapshot gives.
FuturesRateSet(futuresRateByMonthYear, parsed, price) ==
  IF parsed = Null THEN futuresRateByMonthYear
  ELSE MapSet(futuresRateByMonthYear, <<parsed[1].month, parsed[1].year>>, 10000 - price)

FuturesRateStep(futuresRateByMonthYear, contract) ==
  FuturesRateSet(futuresRateByMonthYear, parseZqTickerMonthYear(contract.ticker),
                 contract.price)

FuturesRateByMonthYear(snapshot) ==
  IF snapshot = Null THEN <<>>
  ELSE ForEach(FuturesRateStep, snapshot[1].contracts, <<>>)

\* futuresRateByMonthYear.get(`${impliedMonth}-${impliedYear}`) ?? null
ImpliedRate(futuresRateByMonthYear, quarter, year) ==
  IF MapHas(futuresRateByMonthYear,
            <<MONTH_AFTER_QUARTER_CLOSE[quarter], IF quarter = 4 THEN year + 1 ELSE year>>)
  THEN Some(MapGet(futuresRateByMonthYear,
                   <<MONTH_AFTER_QUARTER_CLOSE[quarter], IF quarter = 4 THEN year + 1 ELSE year>>))
  ELSE Null

\* Mutant: after a missing link the chain stays broken.
QuarterStep_StaysBroken(state, label, impliedRate) ==
  IF state.previousRate = Null \/ impliedRate = Null
  THEN [previousRate |-> Null, hasMissing |-> TRUE,
        quarterRows |-> Append(state.quarterRows, [label |-> label, cutsBps |-> Null])]
  ELSE [previousRate |-> impliedRate, hasMissing |-> state.hasMissing,
        quarterRows |-> Append(state.quarterRows,
                               [label |-> label,
                                cutsBps |-> Some(impliedRate[1] - state.previousRate[1])])]

\* One iteration of quarterSequence.map on previousRate, hasMissing and the rows.
QuarterStep(state, label, impliedRate) ==
  IF state.previousRate = Null \/ impliedRate = Null
  THEN [previousRate |-> impliedRate, hasMissing |-> TRUE,
        quarterRows |-> Append(state.quarterRows, [label |-> label, cutsBps |-> Null])]
  ELSE [previousRate |-> impliedRate, hasMissing |-> state.hasMissing,
        quarterRows |-> Append(state.quarterRows,
                               [label |-> label,
                                cutsBps |-> Some(impliedRate[1] - state.previousRate[1])])]

RECURSIVE SumCuts(_)
SumCuts(quarterRows) ==
  IF Len(quarterRows) = 0 THEN 0
  ELSE (IF quarterRows[1].cutsBps = Null THEN 0 ELSE quarterRows[1].cutsBps[1])
       + SumCuts(Tail(quarterRows))

\* Mutant: the total is the sum of the quarters that have a value.
CutsTotal_SumsKnown(state) == Some(SumCuts(state.quarterRows))

CutsTotal(state) ==
  IF ~state.hasMissing /\ \A i \in 1..Len(state.quarterRows) : state.quarterRows[i].cutsBps # Null
  THEN Some(SumCuts(state.quarterRows))
  ELSE Null

\* The implied rate of each quarter of the sequence.
ImpliedRates(futuresRateByMonthYear, quarterSequence) ==
  [k \in 1..Len(quarterSequence) |->
     [label |-> formatQuarterLabel(quarterSequence[k].quarter, quarterSequence[k].year),
      impliedRate |-> ImpliedRate(futuresRateByMonthYear, quarterSequence[k].quarter,
                                  quarterSequence[k].year)]]

LadderStep(state, entry) == QuarterStep(state, entry.label, entry.impliedRate)

CutsLadder(alignedEffr, futuresRateByMonthYear, quarterSequence) ==
  ForEach(LadderStep, ImpliedRates(futuresRateByMonthYear, quarterSequence),
          [previousRate |-> alignedEffr, hasMissing |-> alignedEffr = Null,
           quarterRows |-> <<>>])

CutsResult(alignedEffr, ladder) ==
  [effr |-> alignedEffr, quarterRows |-> ladder.quarterRows, total |-> CutsTotal(ladder)]

\* The ladder and its total from the aligned EFFR, the contract rates and the
\* four quarters.
CutsOf(alignedEffr, futuresRateByMonthYear, quarterSequence) ==
  CutsResult(alignedEffr, CutsLadder(alignedEffr, futuresRateByMonthYear, quarterSequence))

\* The useMemo body of QuartlyCuts.
QuartlyCutsData(activeTime, effrSeries, fedSnapshots) ==
  IF activeTime = Null THEN [effr |-> Null, quarterRows |-> <<>>, total |-> Null]
  ELSE CutsOf(AlignedValue(getAlignedPoint(effrSeries, activeTime[1],
                                           MAX_ALIGNMENT_GAP_DAYS_DEFAULT)),
              FuturesRateByMonthYear(getAlignedPoint(fedSnapshots, activeTime[1],
                                                     MAX_ALIGNMENT_GAP_DAYS_DEFAULT)),
              getQuarterSequence(activeTime[1]))

\* What the table shows: the EFFR cell, one cell per quarter, the total cell.
QuartlyCutsView(data) ==
  [effrText |-> formatRate(data.effr),
   quarterCells |-> [i \in 1..Len(data.quarterRows) |->
                       [label |-> data.quarterRows[i].label,
                        text |-> formatBps(data.quarterRows[i].cutsBps),
                        tone |-> toneClass(data.quarterRows[i].cutsBps)]],
   totalText |-> formatBps(data.total),
   totalTone |-> toneClass(data.total)]

\* The memoized data and the table rendered from it.
CutsRender(data) == [data |-> data, view |-> QuartlyCutsView(data)]

-----------------------------------------------------------------------------
(* components/YieldSlopes and components/CreditSpreads: the year anchor *)

\* The first loop: the value of the last point of the leading run of points
\* with time <= yearStartTime.
RECURSIVE LastBeforeOrOnStart(_, _, _, _)
LastBeforeOrOnStart(series, yearStartTime, i, lastBeforeOrOnStart) ==
  IF i > Len(series) THEN lastBeforeOrOnStart
  ELSE IF series[i].time <= yearStartTime
       THEN LastBeforeOrOnStart(series, yearStartTime, i + 1, Some(series[i].value))
       ELSE lastBeforeOrOnStart

\* Mutant: the first loop takes only points before the start of the year.
RECURSIVE LastBeforeStart(_, _, _, _)
LastBeforeStart(series, yearStartTime, i, lastBeforeOrOnStart) ==
  IF i > Len(series) THEN lastBeforeOrOnStart
  ELSE IF series[i].time < yearStartTime
       THEN LastBeforeStart(series, yearStartTime, i + 1, Some(series[i].value))
       ELSE lastBeforeOrOnStart

\* The second loop: the value of the first point of the calendar year.
RECURSIVE FirstInYear(_, _, _)
FirstInYear(series, year, i) ==
  IF i > Len(series) THEN Null
  ELSE IF getUTCFullYear(series[i].time) = year THEN Some(series[i].value)
  ELSE FirstInYear(series, year, i + 1)

\* if (lastBeforeOrOnStart !== null) return lastBeforeOrOnStart; then the second loop
AnchorOr(lastBeforeOrOnStart, firstInYear) ==
  IF lastBeforeOrOnStart # Null THEN lastBeforeOrOnStart ELSE firstInYear

getYearAnchorValue_Strict(series, year) ==
  AnchorOr(LastBeforeStart(series, DateUTC(year, 0, 1), 1, Null),
           FirstInYear(series, year, 1))

\* YieldSlopes.
getYearAnchorValue(series, year) ==
  AnchorOr(LastBeforeOrOnStart(series, DateUTC(year, 0, 1), 1, Null),
           FirstInYear(series, year, 1))

\* CreditSpreads: the same function, declared again.
CreditSpreads_getYearAnchorValue(series, year) ==
  AnchorOr(LastBeforeOrOnStart(series, DateUTC(year, 0, 1), 1, Null),
           FirstInYear(series, year, 1))

\* a !== null && b !== null ? a - b : null
NullableDifference(a, b) == IF a # Null /\ b # Null THEN Some(a[1] - b[1]) ELSE Null

\* Mutant: the difference is taken the other way round.
SpreadRowOf_YtdReversed(thisWeek, lastWeek, yearStart) ==
  [thisWeek |-> thisWeek, lastWeek |-> lastWeek,
   delta |-> NullableDifference(thisWeek, lastWeek),
   yearStart |-> yearStart,
   ytd |-> NullableDifference(yearStart, thisWeek)]

\* The row both tables build from the three values.
SpreadRowOf(thisWeek, lastWeek, yearStart) ==
  [thisWeek |-> thisWeek, lastWeek |-> lastWeek,
   delta |-> NullableDifference(thisWeek, lastWeek),
   yearStart |-> yearStart,
   ytd |-> NullableDifference(thisWeek, yearStart)]

\* CreditSpreads: the row of one ticker's series for an active time.
CreditSpreadRow(series, activeTime) ==
  SpreadRowOf(
    AlignedValue(getAlignedPoint(series, activeTime, MAX_ALIGNMENT_GAP_DAYS_DEFAULT)),
    AlignedValue(getAlignedPoint(series, activeTime - 7 * DAY_MS,
                                 MAX_ALIGNMENT_GAP_DAYS_DEFAULT)),
    CreditSpreads_getYearAnchorValue(series, getUTCFullYear(activeTime)))

\* YieldSlopes: right - left when both are there.
getSlopeValue(leftSeries, rightSeries, targetTime) ==
  NullableDifference(
    AlignedValue(getAlignedPoint(rightSeries, targetTime, MAX_ALIGNMENT_GAP_DAYS_DEFAULT)),
    AlignedValue(getAlignedPoint(leftSeries, targetTime, MAX_ALIGNMENT_GAP_DAYS_DEFAULT)))

getSlopeYearAnchor(leftSeries, rightSeries, year) ==
  NullableDifference(getYearAnchorValue(rightSeries, year),
                     getYearAnchorValue(leftSeries, year))

\* YieldSlopes: the row of one slope for an active time.
YieldSlopeRow(leftSeries, rightSeries, activeTime) ==
  SpreadRowOf(getSlopeValue(leftSeries, rightSeries, activeTime),
              getSlopeValue(leftSeries, rightSeries, activeTime - 7 * DAY_MS),
              getSlopeYearAnchor(leftSeries, rightSeries, getUTCFullYear(activeTime)))

-----------------------------------------------------------------------------
(* components/RatesAndYield: the cycle high or low *)

\* endpointDate.setUTCMonth(endpointDate.getUTCMonth() - cycleMonths): the
\* month index may leave 0..11 and the day may pass the end of the month it
\* lands in, and then the date rolls over (ECMA-262 MakeDay).
SetUTCMonthBack(time, cycleMonths) ==
  MakeDay(getUTCFullYear(time), getUTCMonth(time) - cycleMonths, getUTCDate(time)) * DAY_MS
    + (time % DAY_MS)

\* Date.UTC(year, month, date) of a date: its midnight.
UtcMidnight(time) == DateUTC(getUTCFullYear(time), getUTCMonth(time), getUTCDate(time))

getWindowStartTime(endpointTime, cycleMonths) ==
  UtcMidnight(SetUTCMonthBack(endpointTime, cycleMonths))

\* Whether `point` replaces `bestPoint`.
CycleBetter(mode, point, bestPoint) ==
  IF mode = "high"
  THEN point.value > bestPoint.value
         \/ (point.value = bestPoint.value /\ point.time > bestPoint.time)
  ELSE point.value < bestPoint.value
         \/ (point.value = bestPoint.value /\ point.time > bestPoint.time)

\* One pass of the loop body.
CycleStep(bestPoint, point, mode, windowStart) ==
  IF point.time < windowStart THEN bestPoint
  ELSE IF bestPoint = Null THEN Some(point)
  ELSE IF CycleBetter(mode, point, bestPoint[1]) THEN Some(point)
  ELSE bestPoint

\* for (let i = 0; i <= activeIndex; i += 1), from index i on.
RECURSIVE CycleScan(_, _, _, _, _, _)
CycleScan(series, activeIndex, mode, windowStart, i, bestPoint) ==
  IF i > activeIndex THEN bestPoint
  ELSE CycleScan(series, activeIndex, mode, windowStart, i + 1,
                 CycleStep(bestPoint, series[i + 1], mode, windowStart))

getCyclePoint(series, activeIndex, mode, cycleMonths, activeTime) ==
  IF activeIndex < 0 THEN Null
  ELSE CycleScan(series, activeIndex, mode, getWindowStartTime(activeTime, cycleMonths),
                 0, Null)

-----------------------------------------------------------------------------
(* The alignment routines the components declare for themselves *)

\* First loop of getActiveIndex: the week key alone is compared.
RECURSIVE ActiveWeekScan(_, _, _)
ActiveWeekScan(series, activeWeekKey, i) ==
  IF i < 0 THEN -1
  ELSE IF getIsoWeekKeyFromTime(series[i + 1].time) = activeWeekKey THEN i
       ELSE ActiveWeekScan(series, activeWeekKey, i - 1)

\* Second loop of getActiveIndex and the loop of resolveEndpointIndex: the
\* last point at or before the time, however old.
RECURSIVE LastAtOrBefore(_, _, _)
LastAtOrBefore(series, activeTime, i) ==
  IF i < 0 THEN -1
  ELSE IF series[i + 1].time <= activeTime THEN i
       ELSE LastAtOrBefore(series, activeTime, i - 1)

\* MajorIndexes, IndustryOverview and the watchlist declare the same function.
getActiveIndex(series, activeTime) ==
  SameWeekOrPrior(ActiveWeekScan(series, getIsoWeekKeyFromTime(activeTime), Len(series) - 1),
                  LastAtOrBefore(series, activeTime, Len(series) - 1))

\* First loop of resolveSnapshotTime, from the i-th time (1-based) on.
RECURSIVE SnapshotSameWeek(_, _, _, _)
SnapshotSameWeek(sortedTimes, activeWeekKey, i, sameWeekTime) ==
  IF i > Len(sortedTimes) THEN sameWeekTime
  ELSE SnapshotSameWeek(sortedTimes, activeWeekKey, i + 1,
                        IF getIsoWeekKeyFromTime(sortedTimes[i]) = activeWeekKey
                        THEN Some(sortedTimes[i]) ELSE sameWeekTime)

\* Second loop of resolveSnapshotTime; it breaks at the first later time.
RECURSIVE SnapshotLastBeforeOrOn(_, _, _, _)
SnapshotLastBeforeOrOn(sortedTimes, activeTime, i, lastBeforeOrOn) ==
  IF i > Len(sortedTimes) THEN lastBeforeOrOn
  ELSE IF sortedTimes[i] <= activeTime
       THEN SnapshotLastBeforeOrOn(sortedTimes, activeTime, i + 1, Some(sortedTimes[i]))
       ELSE lastBeforeOrOn

\* sameWeekTime !== null ? sameWeekTime : lastBeforeOrOn
SnapshotOr(sameWeekTime, lastBeforeOrOn) ==
  IF sameWeekTime # Null THEN sameWeekTime ELSE lastBeforeOrOn

resolveSnapshotTime(sortedTimes, activeTime) ==
  SnapshotOr(SnapshotSameWeek(sortedTimes, getIsoWeekKeyFromTime(activeTime), 1, Null),
             SnapshotLastBeforeOrOn(sortedTimes, activeTime, 1, Null))

\* The found index, else 0 for a series that has points, else -1.
EndpointOr(found, length) == IF found >= 0 THEN found ELSE IF length > 0 THEN 0 ELSE -1

\* indexChartData: a point's time is its field timeMs, here `time`.
resolveEndpointIndex(points, activeTimeMs) ==
  EndpointOr(LastAtOrBefore(points, activeTimeMs, Len(points) - 1), Len(points))

\* RatesAndYield and YieldCurveGraph: 21 * DAY_MS.
MAX_ALIGNMENT_GAP_MS == 21 * DAY_MS

\* RatesAndYield: the two loops of resolveAlignedPointIndex, declared again
\* with the ceiling as a constant.
resolveActiveIndex(series, activeTime) ==
  SameWeekOrPrior(
    SameWeekScan(series, activeTime, getIsoWeekKeyFromTime(activeTime), Len(series) - 1),
    PriorScan(series, activeTime, MAX_ALIGNMENT_GAP_MS, Len(series) - 1))

\* YieldCurveGraph: the same loops, returning the point or null.
resolveWeekPoint(series, targetTime) ==
  ItemAt(series,
         SameWeekOrPrior(
           SameWeekScan(series, targetTime, getIsoWeekKeyFromTime(targetTime),
                        Len(series) - 1),
           PriorScan(series, targetTime, MAX_ALIGNMENT_GAP_MS, Len(series) - 1)))

-----------------------------------------------------------------------------
(* components/RatesAndYield: the cycle extremum of one instrument *)

MIN_CYCLE_MONTHS == 1
MAX_CYCLE_MONTHS == 36
DEFAULT_CYCLE_MONTHS == 12

MathMin(a, b) == IF a <= b THEN a ELSE b
MathMax(a, b) == IF a >= b THEN a ELSE b

\* Mutant: the lower limit is not applied.
clampCycleMonths_NoLowerLimit(value) ==
  IF value = Null THEN DEFAULT_CYCLE_MONTHS
  ELSE MathMin(MAX_CYCLE_MONTHS, value[1] \div 100)

\* `value` is Number(text): hundredths, or Null when it is not finite.
clampCycleMonths(value) ==
  IF value = Null THEN DEFAULT_CYCLE_MONTHS
  ELSE MathMin(MAX_CYCLE_MONTHS, MathMax(MIN_CYCLE_MONTHS, value[1] \div 100))

\* The points behind one instrument's cells once its active index is known;
\* a not-found index leaves the cells empty.
CycleCellsOf(series, activeIndex, mode, cycleMonths, activeTime) ==
  [cycleMonths |-> cycleMonths,
   activeIndex |-> activeIndex,
   currentPoint |-> ItemAt(series, activeIndex),
   cyclePoint |-> getCyclePoint(series, activeIndex, mode, cycleMonths, activeTime)]

\* One pass of the loop over INSTRUMENT_ORDER, for an active date.
CycleCells(series, activeTime, mode, cycleMonthsInput) ==
  CycleCellsOf(series, resolveActiveIndex(series, activeTime), mode,
               clampCycleMonths(Number(cycleMonthsInput)), activeTime)

-----------------------------------------------------------------------------
(* Alignment queries over a bounded family of sorted series *)

\* Bounds of the alignment inputs.
MaxLen == 2           \* points per series
MaxBack == 22         \* days a point may lie before the first target day
MaxTargetShift == 6   \* target days: AlignBaseDay .. AlignBaseDay + MaxTargetShift
MaxAhead == 1         \* days a point may lie after the last target day
SmallGapDays == 3     \* a non-default maxGapDays argument

\* Monday 2025-12-29, the first day of ISO week 1 of 2026: the target days run
\* from it across the calendar-year boundary.
AlignBaseDay == DaysFromCivil(2025, 12, 29)

AlignPointDays == (AlignBaseDay - MaxBack)..(AlignBaseDay + MaxTargetShift + MaxAhead)

AlignTargetTimes == {d * DAY_MS : d \in AlignBaseDay..(AlignBaseDay + MaxTargetShift)}

\* The default ceiling, a small one, and 6 days: the age of a Monday point on
\* the Sunday of its week.
AlignGapDays == {MAX_ALIGNMENT_GAP_DAYS_DEFAULT, SmallGapDays, 6}

\* Every series of at most n points over AlignPointDays, strictly increasing by time.
SortedSeries(n) ==
  UNION {{[i \in 1..k |-> [time |-> f[i] * DAY_MS]] :
            f \in {g \in [1..k -> AlignPointDays] :
                     \A i \in 1..k, j \in 1..k : i < j => g[i] < g[j]}} :
         k \in 0..n}

NoCall == [fn |-> "none", targetTime |-> 0, maxGapDays |-> 0]

\* The variables of the other specifications, at rest.
AlignIdle == alignPoints = <<>> /\ alignCall = NoCall /\ alignRet = Null

NoFnCall == [fn |-> "none"]

FnIdle == fnInput = <<>> /\ fnCall = NoFnCall /\ fnRet = Null

DateIdle == dateCase = <<>> /\ dateRaw = <<>> /\ dateRet = "pending"

\* The registry as module load builds it from the raw files.
RegistryLoaded ==
  /\ TREASURY_SERIES = parseTreasurySeries(treasuryRatesCsv)
  /\ FED_FUTURES_SNAPSHOTS = parseFedFutures(durationDataCsv)
  /\ CREDIT_SPREAD_SERIES = parseCreditSpreadSeries(durationDataCsv)
  /\ EFFR_SERIES = parseEffrSeries(durationDataCsv)
  /\ MAJOR_INDEX_SERIES = parseMajorIndexSeries(equityDataCsv)
  /\ WATCHLIST_STOX_SERIES = parseWatchlistStoxSeries(equityDataCsv)
  /\ INDUSTRY_SERIES = parseIndustrySeries(equityDataCsv)

\* No raw data: every file is empty.
RegistryIdle ==
  /\ durationDataCsv = <<>>
  /\ equityDataCsv = <<>>
  /\ treasuryRatesCsv = <<>>
  /\ RegistryLoaded

\* No memo computed yet, no getter called yet.
NoMemo == [key |-> Null, value |-> <<>>]

NoGetter == [fn |-> "none", value |-> <<>>]

\* The provider's initial state before any component has rendered.
ViewIdle ==
  /\ selectedId = (IF Len(NEWSLETTERS) > 0 THEN NEWSLETTERS[1].id ELSE <<>>)
  /\ cutsMemo = NoMemo
  /\ majorMemo = NoMemo
  /\ industryMemo = NoMemo
  /\ getterRet = NoGetter

InitAlign ==
  /\ alignPoints \in SortedSeries(MaxLen)
  /\ alignCall = NoCall
  /\ alignRet = Null
  /\ FnIdle
  /\ DateIdle
  /\ RegistryIdle
  /\ ViewIdle

ResolveAlignedPointIndex(targetTime, maxGapDays) ==
  /\ alignCall = NoCall
  /\ alignCall' = [fn |-> "resolveAlignedPointIndex", targetTime |-> targetTime,
                   maxGapDays |-> maxGapDays]
  /\ alignRet' = resolveAlignedPointIndex(alignPoints, targetTime, maxGapDays)
  /\ UNCHANGED <<alignPoints, fnVars, dateVars, rawVars, registryVars, viewVars>>

ResolveAlignedTime(targetTime, maxGapDays) ==
  /\ alignCall = NoCall
  /\ alignCall' = [fn |-> "resolveAlignedTime", targetTime |-> targetTime,
                   maxGapDays |-> maxGapDays]
  /\ alignRet' = resolveAlignedTime([i \in 1..Len(alignPoints) |-> alignPoints[i].time],
                                    targetTime, maxGapDays)
  /\ UNCHANGED <<alignPoints, fnVars, dateVars, rawVars, registryVars, viewVars>>

GetAlignedPoint(targetTime, maxGapDays) ==
  /\ alignCall = NoCall
  /\ alignCall' = [fn |-> "getAlignedPoint", targetTime |-> targetTime,
                   maxGapDays |-> maxGapDays]
  /\ alignRet' = getAlignedPoint(alignPoints, targetTime, maxGapDays)
  /\ UNCHANGED <<alignPoints, fnVars, dateVars, rawVars, registryVars, viewVars>>

\* Every component calls the wrappers with the default gap ceiling.
NextAlign ==
  \E targetTime \in AlignTargetTimes :
    \/ \E maxGapDays \in AlignGapDays : ResolveAlignedPointIndex(targetTime, maxGapDays)
    \/ ResolveAlignedTime(targetTime, MAX_ALIGNMENT_GAP_DAYS_DEFAULT)
    \/ GetAlignedPoint(targetTime, MAX_ALIGNMENT_GAP_DAYS_DEFAULT)

SpecAlign == InitAlign /\ [][NextAlign]_vars

-----------------------------------------------------------------------------
(* The components' own alignment routines over the same family of series *)

GetActiveIndex(targetTime) ==
  /\ alignCall = NoCall
  /\ alignCall' = [fn |-> "getActiveIndex", targetTime |-> targetTime,
                   maxGapDays |-> MAX_ALIGNMENT_GAP_DAYS_DEFAULT]
  /\ alignRet' = getActiveIndex(alignPoints, targetTime)
  /\ UNCHANGED <<alignPoints, fnVars, dateVars, rawVars, registryVars, viewVars>>

ResolveSnapshotTime(targetTime) ==
  /\ alignCall = NoCall
  /\ alignCall' = [fn |-> "resolveSnapshotTime", targetTime |-> targetTime,
                   maxGapDays |-> MAX_ALIGNMENT_GAP_DAYS_DEFAULT]
  /\ alignRet' = resolveSnapshotTime([i \in 1..Len(alignPoints) |-> alignPoints[i].time],
                                     targetTime)
  /\ UNCHANGED <<alignPoints, fnVars, dateVars, rawVars, registryVars, viewVars>>

ResolveEndpointIndex(targetTime) ==
  /\ alignCall = NoCall
  /\ alignCall' = [fn |-> "resolveEndpointIndex", targetTime |-> targetTime,
                   maxGapDays |-> MAX_ALIGNMENT_GAP_DAYS_DEFAULT]
  /\ alignRet' = resolveEndpointIndex(alignPoints, targetTime)
  /\ UNCHANGED <<alignPoints, fnVars, dateVars, rawVars, registryVars, viewVars>>

ResolveActiveIndex(targetTime) ==
  /\ alignCall = NoCall
  /\ alignCall' = [fn |-> "resolveActiveIndex", targetTime |-> targetTime,
                   maxGapDays |-> MAX_ALIGNMENT_GAP_DAYS_DEFAULT]
  /\ alignRet' = resolveActiveIndex(alignPoints, targetTime)
  /\ UNCHANGED <<alignPoints, fnVars, dateVars, rawVars, registryVars, viewVars>>

ResolveWeekPoint(targetTime) ==
  /\ alignCall = NoCall
  /\ alignCall' = [fn |-> "resolveWeekPoint", targetTime |-> targetTime,
                   maxGapDays |-> MAX_ALIGNMENT_GAP_DAYS_DEFAULT]
  /\ alignRet' = resolveWeekPoint(alignPoints, targetTime)
  /\ UNCHANGED <<alignPoints, fnVars, dateVars, rawVars, registryVars, viewVars>>

NextInline ==
  \E targetTime \in AlignTargetTimes :
    \/ ResolveAlignedPointIndex(targetTime, MAX_ALIGNMENT_GAP_DAYS_DEFAULT)
    \/ GetActiveIndex(targetTime)
    \/ ResolveSnapshotTime(targetTime)
    \/ ResolveEndpointIndex(targetTime)
    \/ ResolveActiveIndex(targetTime)
    \/ ResolveWeekPoint(targetTime)

SpecInline == InitAlign /\ [][NextInline]_vars

\* Index queries alone, under the default ceiling and the small one.
NextMonotonic ==
  \E targetTime \in AlignTargetTimes :
    \E maxGapDays \in {MAX_ALIGNMENT_GAP_DAYS_DEFAULT, SmallGapDays} :
      ResolveAlignedPointIndex(targetTime, maxGapDays)

SpecMonotonic == InitAlign /\ [][NextMonotonic]_vars

-----------------------------------------------------------------------------
(* Date tokens handed to parseUsDateToUtcTime *)

MaxMonthToken == 13   \* month numbers written in a token: 0..MaxMonthToken
MaxDayToken == 32     \* day numbers written in a token: 0..MaxDayToken

DateTokenYears == {2024, 2025}

\* The shapes of token: four the pattern accepts, four it rejects.
DateShapes == {"plain", "padded", "quoted", "spaced",
               "twoDigitYear", "dashed", "noYear", "text"}

WellFormedShapes == {"plain", "padded", "quoted", "spaced"}

RenderDateToken(shape, month, day, year) ==
  LET plain == Decimal(month, 1) \o <<"/">> \o Decimal(day, 1) \o <<"/">> \o Decimal(year, 4)
  IN  CASE shape = "plain"  -> plain
        [] shape = "padded" ->
             Decimal(month, 2) \o <<"/">> \o Decimal(day, 2) \o <<"/">> \o Decimal(year, 4)
        [] shape = "quoted" -> <<"\"">> \o plain \o <<"\"">>
        [] shape = "spaced" -> <<" ">> \o plain \o <<" ">>
        [] shape = "twoDigitYear" ->
             Decimal(month, 1) \o <<"/">> \o Decimal(day, 1) \o <<"/">> \o Decimal(year % 100, 2)
        [] shape = "dashed" ->
             Decimal(year, 4) \o <<"-">> \o Decimal(month, 2) \o <<"-">> \o Decimal(day, 2)
        [] shape = "noYear" -> Decimal(month, 1) \o <<"/">> \o Decimal(day, 1)
        [] OTHER -> <<"D", "a", "t", "e">>

DateTokenCases ==
  [shape : DateShapes, month : 0..MaxMonthToken, day : 0..MaxDayToken, year : DateTokenYears]

InitDate ==
  /\ dateCase \in DateTokenCases
  /\ dateRaw = RenderDateToken(dateCase.shape, dateCase.month, dateCase.day, dateCase.year)
  /\ dateRet = "pending"
  /\ AlignIdle
  /\ FnIdle
  /\ RegistryIdle
  /\ ViewIdle

ParseUsDateToUtcTime ==
  /\ dateRet = "pending"
  /\ dateRet' = parseUsDateToUtcTime(dateRaw)
  /\ UNCHANGED <<dateCase, dateRaw, alignVars, fnVars, rawVars, registryVars, viewVars>>

NextDate == ParseUsDateToUtcTime

SpecDate == InitDate /\ [][NextDate]_vars

-----------------------------------------------------------------------------
(* Module load over bounded raw files: each file grows by one line drawn    *)
(* from a pool and the registry is what the parsers make of the files.      *)

\* The most lines one behaviour gives a data set (a treasury header included).
MaxRows == 3

\* Rows of duration_data.csv: date, name, ticker, category, value[, sequence].
\* 46020 is 2025-12-29 and 46013 is 2025-12-22 as Excel serials.
DurationLinePool ==
  <<
  \* 46020,x,EFFR,rate,4.33
  <<"4", "6", "0", "2", "0", ",", "x", ",", "E", "F", "F", "R", ",", "r", "a", "t", "e", ",", "4", ".", "3", "3">>,
  \* 46013,x,effr,rate,4.08
  <<"4", "6", "0", "1", "3", ",", "x", ",", "e", "f", "f", "r", ",", "r", "a", "t", "e", ",", "4", ".", "0", "8">>,
  \* 46020,x,EFFR,rate,3.83
  <<"4", "6", "0", "2", "0", ",", "x", ",", "E", "F", "F", "R", ",", "r", "a", "t", "e", ",", "3", ".", "8", "3">>,
  \* 46020,x,HY,spread,3.10
  <<"4", "6", "0", "2", "0", ",", "x", ",", "H", "Y", ",", "s", "p", "r", "e", "a", "d", ",", "3", ".", "1", "0">>,
  \* 46013,x,hy,Spread,3.25
  <<"4", "6", "0", "1", "3", ",", "x", ",", "h", "y", ",", "S", "p", "r", "e", "a", "d", ",", "3", ".", "2", "5">>,
  \* 46020,x,HY,spread,2.90
  <<"4", "6", "0", "2", "0", ",", "x", ",", "H", "Y", ",", "s", "p", "r", "e", "a", "d", ",", "2", ".", "9", "0">>,
  \* 46020,x,JAN ZQ26,future,96.25,1
  <<"4", "6", "0", "2", "0", ",", "x", ",", "J", "A", "N", " ", "Z", "Q", "2", "6", ",", "f", "u", "t", "u", "r", "e", ",", "9", "6", ".", "2", "5", ",", "1">>,
  \* 46013,x,JAN ZQ26,future,96.00,1
  <<"4", "6", "0", "1", "3", ",", "x", ",", "J", "A", "N", " ", "Z", "Q", "2", "6", ",", "f", "u", "t", "u", "r", "e", ",", "9", "6", ".", "0", "0", ",", "1">>,
  \* 46020,x,FEB ZQ26,future,96.50,1
  <<"4", "6", "0", "2", "0", ",", "x", ",", "F", "E", "B", " ", "Z", "Q", "2", "6", ",", "f", "u", "t", "u", "r", "e", ",", "9", "6", ".", "5", "0", ",", "1">>,
  \* 46020,x,EFFR,rate,n/a
  <<"4", "6", "0", "2", "0", ",", "x", ",", "E", "F", "F", "R", ",", "r", "a", "t", "e", ",", "n", "/", "a">>,
  \* 46013,x,EFFR,spread,4.08
  <<"4", "6", "0", "1", "3", ",", "x", ",", "E", "F", "F", "R", ",", "s", "p", "r", "e", "a", "d", ",", "4", ".", "0", "8">>,
  \* 46020,x,MAR ZQ26,future,96.75,1.5
  <<"4", "6", "0", "2", "0", ",", "x", ",", "M", "A", "R", " ", "Z", "Q", "2", "6", ",", "f", "u", "t", "u", "r", "e", ",", "9", "6", ".", "7", "5", ",", "1", ".", "5">>,
  \* n/a,x,EFFR,rate,4.33
  <<"n", "/", "a", ",", "x", ",", "E", "F", "F", "R", ",", "r", "a", "t", "e", ",", "4", ".", "3", "3">>
  >>

\* Rows of equity_data.csv: date, name, ticker, tag, price[, industry tag].
EquityLinePool ==
  <<
  \* 46020,x,SPX,stox,6000
  <<"4", "6", "0", "2", "0", ",", "x", ",", "S", "P", "X", ",", "s", "t", "o", "x", ",", "6", "0", "0", "0">>,
  \* 46013,x,SXP,stox,5900
  <<"4", "6", "0", "1", "3", ",", "x", ",", "S", "X", "P", ",", "s", "t", "o", "x", ",", "5", "9", "0", "0">>,
  \* 46020,x,sxp,idx,6100
  <<"4", "6", "0", "2", "0", ",", "x", ",", "s", "x", "p", ",", "i", "d", "x", ",", "6", "1", "0", "0">>,
  \* 46020,x,SPX,stox,6050
  <<"4", "6", "0", "2", "0", ",", "x", ",", "S", "P", "X", ",", "s", "t", "o", "x", ",", "6", "0", "5", "0">>,
  \* 46020,x,XLK,einx,200,1
  <<"4", "6", "0", "2", "0", ",", "x", ",", "X", "L", "K", ",", "e", "i", "n", "x", ",", "2", "0", "0", ",", "1">>,
  \* 46013,x,XLK,einx,190,1
  <<"4", "6", "0", "1", "3", ",", "x", ",", "X", "L", "K", ",", "e", "i", "n", "x", ",", "1", "9", "0", ",", "1">>,
  \* 46020,x,xlk,einx,210,1
  <<"4", "6", "0", "2", "0", ",", "x", ",", "x", "l", "k", ",", "e", "i", "n", "x", ",", "2", "1", "0", ",", "1">>,
  \* 46020,x,EXV1,einx,100,1
  <<"4", "6", "0", "2", "0", ",", "x", ",", "E", "X", "V", "1", ",", "e", "i", "n", "x", ",", "1", "0", "0", ",", "1">>,
  \* 46020,x,XLK,einx,200,12
  <<"4", "6", "0", "2", "0", ",", "x", ",", "X", "L", "K", ",", "e", "i", "n", "x", ",", "2", "0", "0", ",", "1", "2">>
  >>

TreasuryHeaderPool ==
  <<
  \* Date,"1 MO","3 MO"
  <<"D", "a", "t", "e", ",", "\"", "1", " ", "M", "O", "\"", ",", "\"", "3", " ", "M", "O", "\"">>,
  \* Date,3 MO,1 MO
  <<"D", "a", "t", "e", ",", "3", " ", "M", "O", ",", "1", " ", "M", "O">>
  >>

TreasuryLinePool ==
  <<
  \* 12/29/2025,4.50,4.75
  <<"1", "2", "/", "2", "9", "/", "2", "0", "2", "5", ",", "4", ".", "5", "0", ",", "4", ".", "7", "5">>,
  \* 12/22/2025,4.40,4.60
  <<"1", "2", "/", "2", "2", "/", "2", "0", "2", "5", ",", "4", ".", "4", "0", ",", "4", ".", "6", "0">>,
  \* 12/29/2025,4.10,N/A
  <<"1", "2", "/", "2", "9", "/", "2", "0", "2", "5", ",", "4", ".", "1", "0", ",", "N", "/", "A">>,
  \* 1/2/2026,4.00,3.90
  <<"1", "/", "2", "/", "2", "0", "2", "6", ",", "4", ".", "0", "0", ",", "3", ".", "9", "0">>,
  \* n/a,1,2
  <<"n", "/", "a", ",", "1", ",", "2">>,
  \* 12/29/2025,N/A,4.20
  <<"1", "2", "/", "2", "9", "/", "2", "0", "2", "5", ",", "N", "/", "A", ",", "4", ".", "2", "0">>
  >>

RECURSIVE SumOfLengths(_)
SumOfLengths(files) ==
  IF Len(files) = 0 THEN 0 ELSE Len(files[1]) + SumOfLengths(Tail(files))

InitParse ==
  /\ RegistryIdle
  /\ AlignIdle
  /\ FnIdle
  /\ DateIdle
  /\ ViewIdle

\* Module load with one more line in duration_data.csv.
LoadDurationLine(line) ==
  /\ equityDataCsv = <<>> /\ treasuryRatesCsv = <<>>
  /\ Len(durationDataCsv) < MaxRows
  /\ durationDataCsv' = Append(durationDataCsv, line)
  /\ FED_FUTURES_SNAPSHOTS' = parseFedFutures(durationDataCsv')
  /\ CREDIT_SPREAD_SERIES' = parseCreditSpreadSeries(durationDataCsv')
  /\ EFFR_SERIES' = parseEffrSeries(durationDataCsv')
  /\ UNCHANGED <<equityDataCsv, treasuryRatesCsv, TREASURY_SERIES, MAJOR_INDEX_SERIES,
                 WATCHLIST_STOX_SERIES, INDUSTRY_SERIES, alignVars, fnVars, dateVars, viewVars>>

\* Module load with one more line in equity_data.csv.
LoadEquityLine(line) ==
  /\ durationDataCsv = <<>> /\ treasuryRatesCsv = <<>>
  /\ Len(equityDataCsv) < MaxRows
  /\ equityDataCsv' = Append(equityDataCsv, line)
  /\ MAJOR_INDEX_SERIES' = parseMajorIndexSeries(equityDataCsv')
  /\ WATCHLIST_STOX_SERIES' = parseWatchlistStoxSeries(equityDataCsv')
  /\ INDUSTRY_SERIES' = parseIndustrySeries(equityDataCsv')
  /\ UNCHANGED <<durationDataCsv, treasuryRatesCsv, TREASURY_SERIES, FED_FUTURES_SNAPSHOTS,
                 CREDIT_SPREAD_SERIES, EFFR_SERIES, alignVars, fnVars, dateVars, viewVars>>

\* Module load with one more treasury file, which has its header line only.
LoadTreasuryFile(header) ==
  /\ durationDataCsv = <<>> /\ equityDataCsv = <<>>
  /\ SumOfLengths(treasuryRatesCsv) < MaxRows + 1
  /\ treasuryRatesCsv' = Append(treasuryRatesCsv, <<header>>)
  /\ TREASURY_SERIES' = parseTreasurySeries(treasuryRatesCsv')
  /\ UNCHANGED <<durationDataCsv, equityDataCsv, FED_FUTURES_SNAPSHOTS, CREDIT_SPREAD_SERIES,
                 EFFR_SERIES, MAJOR_INDEX_SERIES, WATCHLIST_STOX_SERIES, INDUSTRY_SERIES,
                 alignVars, fnVars, dateVars, viewVars>>

\* Module load with one more line in the last treasury file.
LoadTreasuryLine(line) ==
  /\ durationDataCsv = <<>> /\ equityDataCsv = <<>>
  /\ Len(treasuryRatesCsv) > 0
  /\ SumOfLengths(treasuryRatesCsv) < MaxRows + 1
  /\ treasuryRatesCsv' =
       [treasuryRatesCsv EXCEPT ![Len(treasuryRatesCsv)] = Append(@, line)]
  /\ TREASURY_SERIES' = parseTreasurySeries(treasuryRatesCsv')
  /\ UNCHANGED <<durationDataCsv, equityDataCsv, FED_FUTURES_SNAPSHOTS, CREDIT_SPREAD_SERIES,
                 EFFR_SERIES, MAJOR_INDEX_SERIES, WATCHLIST_STOX_SERIES, INDUSTRY_SERIES,
                 alignVars, fnVars, dateVars, viewVars>>

NextParse ==
  \/ \E line \in SeqRange(DurationLinePool) : LoadDurationLine(line)
  \/ \E line \in SeqRange(EquityLinePool) : LoadEquityLine(line)
  \/ \E header \in SeqRange(TreasuryHeaderPool) : LoadTreasuryFile(header)
  \/ \E line \in SeqRange(TreasuryLinePool) : LoadTreasuryLine(line)

SpecParse == InitParse /\ [][NextParse]_vars

-----------------------------------------------------------------------------
(* The components over the registry: the selection changes, each component  *)
(* recomputes its memo for the selection, callers read the registry.        *)

getTreasurySeries == TREASURY_SERIES

getFedFuturesSnapshots == FED_FUTURES_SNAPSHOTS

getCreditSpreadSeries == CREDIT_SPREAD_SERIES

getEffrSeries == EFFR_SERIES

getMajorIndexSeries == MAJOR_INDEX_SERIES

getWatchlistStoxSeries == WATCHLIST_STOX_SERIES

getIndustrySeries == INDUSTRY_SERIES

\* Rows of duration_data.csv dated 2025-11-03 (serial 45964): the EFFR, the
\* four contracts a ladder of that date reads, and a row whose ticker is not
\* a contract ticker.
CutsLinePool ==
  <<
  \* 45964,x,EFFR,rate,3.87
  <<"4", "5", "9", "6", "4", ",", "x", ",", "E", "F", "F", "R", ",", "r", "a", "t", "e", ",", "3", ".", "8", "7">>,
  \* 45964,x,JAN ZQ26,future,96.25,3
  <<"4", "5", "9", "6", "4", ",", "x", ",", "J", "A", "N", " ", "Z", "Q", "2", "6", ",", "f", "u", "t", "u", "r", "e", ",", "9", "6", ".", "2", "5", ",", "3">>,
  \* 45964,x,APR ZQ26,future,96.50,6
  <<"4", "5", "9", "6", "4", ",", "x", ",", "A", "P", "R", " ", "Z", "Q", "2", "6", ",", "f", "u", "t", "u", "r", "e", ",", "9", "6", ".", "5", "0", ",", "6">>,
  \* 45964,x,JUL ZQ26,future,96.65,9
  <<"4", "5", "9", "6", "4", ",", "x", ",", "J", "U", "L", " ", "Z", "Q", "2", "6", ",", "f", "u", "t", "u", "r", "e", ",", "9", "6", ".", "6", "5", ",", "9">>,
  \* 45964,x,OCT ZQ26,future,96.75,12
  <<"4", "5", "9", "6", "4", ",", "x", ",", "O", "C", "T", " ", "Z", "Q", "2", "6", ",", "f", "u", "t", "u", "r", "e", ",", "9", "6", ".", "7", "5", ",", "1", "2">>,
  \* 45964,x,ZQF26,future,96.00,1
  <<"4", "5", "9", "6", "4", ",", "x", ",", "Z", "Q", "F", "2", "6", ",", "f", "u", "t", "u", "r", "e", ",", "9", "6", ".", "0", "0", ",", "1">>
  >>

RECURSIVE SelectLines(_, _, _)
SelectLines(pool, keep, i) ==
  IF i > Len(pool) THEN <<>>
  ELSE (IF i \in keep THEN <<pool[i]>> ELSE <<>>) \o SelectLines(pool, keep, i + 1)

\* Every duration_data.csv that holds some of the pool's rows.
CutsFiles == {SelectLines(CutsLinePool, keep, 1) : keep \in SUBSET (1..Len(CutsLinePool))}

\* The raw files of the build the components run over.
DurationDataFile ==
  CutsLinePool \o <<
  \* 45964,x,HY,spread,3.10
  <<"4", "5", "9", "6", "4", ",", "x", ",", "H", "Y", ",", "s", "p", "r", "e", "a", "d", ",", "3", ".", "1", "0">>,
  \* 46020,x,HY,spread,2.90
  <<"4", "6", "0", "2", "0", ",", "x", ",", "H", "Y", ",", "s", "p", "r", "e", "a", "d", ",", "2", ".", "9", "0">>
  >>

\* Serials 45964, 45971, 45985, 46013, 46020 are 2025-11-03, 11-10, 11-24,
\* 12-22 and 12-29.
EquityDataFile ==
  <<
  \* 45964,x,SPX,idx,460.00
  <<"4", "5", "9", "6", "4", ",", "x", ",", "S", "P", "X", ",", "i", "d", "x", ",", "4", "6", "0", ".", "0", "0">>,
  \* 45971,x,SPX,idx,465.50
  <<"4", "5", "9", "7", "1", ",", "x", ",", "S", "P", "X", ",", "i", "d", "x", ",", "4", "6", "5", ".", "5", "0">>,
  \* 45985,x,SPX,idx,470.00
  <<"4", "5", "9", "8", "5", ",", "x", ",", "S", "P", "X", ",", "i", "d", "x", ",", "4", "7", "0", ".", "0", "0">>,
  \* 46020,x,SPX,idx,480.00
  <<"4", "6", "0", "2", "0", ",", "x", ",", "S", "P", "X", ",", "i", "d", "x", ",", "4", "8", "0", ".", "0", "0">>,
  \* 46020,x,NDX,idx,250.00
  <<"4", "6", "0", "2", "0", ",", "x", ",", "N", "D", "X", ",", "i", "d", "x", ",", "2", "5", "0", ".", "0", "0">>,
  \* 46013,x,NDX,idx,250.00
  <<"4", "6", "0", "1", "3", ",", "x", ",", "N", "D", "X", ",", "i", "d", "x", ",", "2", "5", "0", ".", "0", "0">>,
  \* 46020,x,AAPL,stox,275.10
  <<"4", "6", "0", "2", "0", ",", "x", ",", "A", "A", "P", "L", ",", "s", "t", "o", "x", ",", "2", "7", "5", ".", "1", "0">>,
  \* 46020,x,XLK,einx,200.00,1
  <<"4", "6", "0", "2", "0", ",", "x", ",", "X", "L", "K", ",", "e", "i", "n", "x", ",", "2", "0", "0", ".", "0", "0", ",", "1">>,
  \* 46013,x,XLK,einx,190.00,1
  <<"4", "6", "0", "1", "3", ",", "x", ",", "X", "L", "K", ",", "e", "i", "n", "x", ",", "1", "9", "0", ".", "0", "0", ",", "1">>,
  \* 45985,x,EXV1,einx,100.00,1
  <<"4", "5", "9", "8", "5", ",", "x", ",", "E", "X", "V", "1", ",", "e", "i", "n", "x", ",", "1", "0", "0", ".", "0", "0", ",", "1">>,
  \* 46020,x,EXV1,einx,101.00,1
  <<"4", "6", "0", "2", "0", ",", "x", ",", "E", "X", "V", "1", ",", "e", "i", "n", "x", ",", "1", "0", "1", ".", "0", "0", ",", "1">>
  >>

TreasuryFiles ==
  <<<<
  \* Date,"1 MO","3 MO"
  <<"D", "a", "t", "e", ",", "\"", "1", " ", "M", "O", "\"", ",", "\"", "3", " ", "M", "O", "\"">>,
  \* 12/29/2025,3.70,3.65
  <<"1", "2", "/", "2", "9", "/", "2", "0", "2", "5", ",", "3", ".", "7", "0", ",", "3", ".", "6", "5">>,
  \* 12/22/2025,3.72,3.66
  <<"1", "2", "/", "2", "2", "/", "2", "0", "2", "5", ",", "3", ".", "7", "2", ",", "3", ".", "6", "6">>
  >>>>

\* setSelectedId(id)
SelectNewsletter(id) ==
  /\ selectedId' = id
  /\ UNCHANGED <<cutsMemo, majorMemo, industryMemo, getterRet,
                 alignVars, fnVars, dateVars, rawVars, registryVars>>

\* QuartlyCuts renders: useMemo recomputes when `selected` changed.
RenderQuartlyCuts ==
  /\ cutsMemo.key # Some(selectedId)
  /\ cutsMemo' =
       [key |-> Some(selectedId),
        value |-> CutsRender(QuartlyCutsData(ActiveTimeOf(selectedId), getEffrSeries,
                                             getFedFuturesSnapshots))]
  /\ UNCHANGED <<selectedId, majorMemo, industryMemo, getterRet,
                 alignVars, fnVars, dateVars, rawVars, registryVars>>

\* MajorIndexes renders.
RenderMajorIndexes ==
  /\ majorMemo.key # Some(selectedId)
  /\ majorMemo' =
       [key |-> Some(selectedId),
        value |-> MajorIndexRows(ActiveTimeOf(selectedId), getMajorIndexSeries)]
  /\ UNCHANGED <<selectedId, cutsMemo, industryMemo, getterRet,
                 alignVars, fnVars, dateVars, rawVars, registryVars>>

\* IndustryOverview renders.
RenderIndustryOverview ==
  /\ industryMemo.key # Some(selectedId)
  /\ industryMemo' =
       [key |-> Some(selectedId),
        value |-> IndustryRows(ActiveTimeOf(selectedId), getIndustrySeries)]
  /\ UNCHANGED <<selectedId, cutsMemo, majorMemo, getterRet,
                 alignVars, fnVars, dateVars, rawVars, registryVars>>

\* Mutant: the getter hands out the array and the caller pushes onto it.
CallGetEffrSeries_Mutating ==
  /\ getterRet' = [fn |-> "getEffrSeries", value |-> getEffrSeries]
  /\ EFFR_SERIES' = Append(EFFR_SERIES, [time |-> 0, value |-> 0])
  /\ UNCHANGED <<selectedId, cutsMemo, majorMemo, industryMemo, alignVars, fnVars, dateVars, rawVars,
                 TREASURY_SERIES, FED_FUTURES_SNAPSHOTS, CREDIT_SPREAD_SERIES,
                 MAJOR_INDEX_SERIES, WATCHLIST_STOX_SERIES, INDUSTRY_SERIES>>

CallGetTreasurySeries ==
  /\ getterRet' = [fn |-> "getTreasurySeries", value |-> getTreasurySeries]
  /\ UNCHANGED <<selectedId, cutsMemo, majorMemo, industryMemo,
                 alignVars, fnVars, dateVars, rawVars, registryVars>>

CallGetFedFuturesSnapshots ==
  /\ getterRet' = [fn |-> "getFedFuturesSnapshots", value |-> getFedFuturesSnapshots]
  /\ UNCHANGED <<selectedId, cutsMemo, majorMemo, industryMemo,
                 alignVars, fnVars, dateVars, rawVars, registryVars>>

CallGetCreditSpreadSeries ==
  /\ getterRet' = [fn |-> "getCreditSpreadSeries", value |-> getCreditSpreadSeries]
  /\ UNCHANGED <<selectedId, cutsMemo, majorMemo, industryMemo,
                 alignVars, fnVars, dateVars, rawVars, registryVars>>

CallGetEffrSeries ==
  /\ getterRet' = [fn |-> "getEffrSeries", value |-> getEffrSeries]
  /\ UNCHANGED <<selectedId, cutsMemo, majorMemo, industryMemo,
                 alignVars, fnVars, dateVars, rawVars, registryVars>>

CallGetMajorIndexSeries ==
  /\ getterRet' = [fn |-> "getMajorIndexSeries", value |-> getMajorIndexSeries]
  /\ UNCHANGED <<selectedId, cutsMemo, majorMemo, industryMemo,
                 alignVars, fnVars, dateVars, rawVars, registryVars>>

CallGetWatchlistStoxSeries ==
  /\ getterRet' = [fn |-> "getWatchlistStoxSeries", value |-> getWatchlistStoxSeries]
  /\ UNCHANGED <<selectedId, cutsMemo, majorMemo, industryMemo,
                 alignVars, fnVars, dateVars, rawVars, registryVars>>

CallGetIndustrySeries ==
  /\ getterRet' = [fn |-> "getIndustrySeries", value |-> getIndustrySeries]
  /\ UNCHANGED <<selectedId, cutsMemo, majorMemo, industryMemo,
                 alignVars, fnVars, dateVars, rawVars, registryVars>>

\* Module load, then the provider's initial state.
Init ==
  /\ durationDataCsv = DurationDataFile
  /\ equityDataCsv = EquityDataFile
  /\ treasuryRatesCsv = TreasuryFiles
  /\ RegistryLoaded
  /\ ViewIdle
  /\ AlignIdle
  /\ FnIdle
  /\ DateIdle

Next ==
  \/ \E id \in NewsletterIds : SelectNewsletter(id)
  \/ RenderQuartlyCuts
  \/ RenderMajorIndexes
  \/ RenderIndustryOverview
  \/ CallGetTreasurySeries
  \/ CallGetFedFuturesSnapshots
  \/ CallGetCreditSpreadSeries
  \/ CallGetEffrSeries
  \/ CallGetMajorIndexSeries
  \/ CallGetWatchlistStoxSeries
  \/ CallGetIndustrySeries

Spec == Init /\ [][Next]_vars

\* The ladder alone, over every duration file of the pool and every selection.
InitCuts ==
  /\ durationDataCsv \in CutsFiles
  /\ equityDataCsv = <<>>
  /\ treasuryRatesCsv = <<>>
  /\ RegistryLoaded
  /\ selectedId \in NewsletterIds
  /\ cutsMemo = NoMemo
  /\ majorMemo = NoMemo
  /\ industryMemo = NoMemo
  /\ getterRet = NoGetter
  /\ AlignIdle
  /\ FnIdle
  /\ DateIdle

NextCuts == RenderQuartlyCuts

SpecCuts == InitCuts /\ [][NextCuts]_vars

-----------------------------------------------------------------------------
(* Derivations over a bounded family of sorted series with values *)

MaxPoints == 3

\* Days on both sides of a year start, and a month end with the days a shift
\* of whole months from it can land on.
DerivePointDays ==
  {DaysFromCivil(2024, 12, 30), DaysFromCivil(2025, 1, 1), DaysFromCivil(2025, 1, 2),
   DaysFromCivil(2025, 2, 28), DaysFromCivil(2025, 3, 3), DaysFromCivil(2025, 3, 31),
   DaysFromCivil(2026, 1, 5)}

DeriveTimes == {d * DAY_MS : d \in DerivePointDays}

DeriveValues == {100, 200}

DeriveWindows == {2 * DAY_MS, TRAILING_52_WEEK_MS}

DeriveYears == 2023..2026

DeriveCycleMonths == {1, 12}

\* Every series of at most n points over DerivePointDays, strictly increasing
\* by time, as the registry's series are.
DeriveSeries(n) ==
  UNION {{[i \in 1..k |-> [time |-> f[i] * DAY_MS, value |-> v[i]]] :
            f \in {g \in [1..k -> DerivePointDays] :
                     \A i \in 1..k, j \in 1..k : i < j => g[i] < g[j]},
            v \in [1..k -> DeriveValues]} :
         k \in 0..n}

InitDerive ==
  /\ fnInput \in DeriveSeries(MaxPoints)
  /\ fnCall = NoFnCall
  /\ fnRet = Null
  /\ AlignIdle
  /\ DateIdle
  /\ RegistryIdle
  /\ ViewIdle

ComputeRollingHigh(endTime, windowMs) ==
  /\ fnCall = NoFnCall
  /\ fnCall' = [fn |-> "computeRollingHigh", endTime |-> endTime, windowMs |-> windowMs]
  /\ fnRet' = computeRollingHigh(fnInput, endTime, windowMs)
  /\ UNCHANGED <<fnInput, alignVars, dateVars, rawVars, registryVars, viewVars>>

GetYearAnchorValue(year) ==
  /\ fnCall = NoFnCall
  /\ fnCall' = [fn |-> "getYearAnchorValue", year |-> year]
  /\ fnRet' = getYearAnchorValue(fnInput, year)
  /\ UNCHANGED <<fnInput, alignVars, dateVars, rawVars, registryVars, viewVars>>

CreditSpreadsGetYearAnchorValue(year) ==
  /\ fnCall = NoFnCall
  /\ fnCall' = [fn |-> "CreditSpreads.getYearAnchorValue", year |-> year]
  /\ fnRet' = CreditSpreads_getYearAnchorValue(fnInput, year)
  /\ UNCHANGED <<fnInput, alignVars, dateVars, rawVars, registryVars, viewVars>>

GetCyclePoint(activeIndex, mode, cycleMonths, activeTime) ==
  /\ fnCall = NoFnCall
  /\ fnCall' = [fn |-> "getCyclePoint", activeIndex |-> activeIndex, mode |-> mode,
                cycleMonths |-> cycleMonths, activeTime |-> activeTime]
  /\ fnRet' = getCyclePoint(fnInput, activeIndex, mode, cycleMonths, activeTime)
  /\ UNCHANGED <<fnInput, alignVars, dateVars, rawVars, registryVars, viewVars>>

NextDerive ==
  \/ \E endTime \in DeriveTimes, windowMs \in DeriveWindows :
       ComputeRollingHigh(endTime, windowMs)
  \/ \E year \in DeriveYears : GetYearAnchorValue(year)
  \/ \E year \in DeriveYears : CreditSpreadsGetYearAnchorValue(year)
  \/ \E activeIndex \in -1..(Len(fnInput) - 1), mode \in {"high", "low"},
        cycleMonths \in DeriveCycleMonths, activeTime \in DeriveTimes :
       GetCyclePoint(activeIndex, mode, cycleMonths, activeTime)

SpecDerive == InitDerive /\ [][NextDerive]_vars

-----------------------------------------------------------------------------
(* The change functions over bounded nullable numbers *)

MaxChange == 6

\* Hundredths around zero, and 100.00 and 110.00.
ChangeValues == (-MaxChange..MaxChange) \cup {10000, 11000}

ChangeInputs == {Null} \cup {Some(v) : v \in ChangeValues}

InitChange ==
  /\ fnInput \in [current : ChangeInputs, previous : ChangeInputs]
  /\ fnCall = NoFnCall
  /\ fnRet = Null
  /\ AlignIdle
  /\ DateIdle
  /\ RegistryIdle
  /\ ViewIdle

ComputePercentChange ==
  /\ fnCall = NoFnCall
  /\ fnCall' = [fn |-> "computePercentChange"]
  /\ fnRet' = computePercentChange(fnInput.current, fnInput.previous)
  /\ UNCHANGED <<fnInput, alignVars, dateVars, rawVars, registryVars, viewVars>>

ComputeNominalChange ==
  /\ fnCall = NoFnCall
  /\ fnCall' = [fn |-> "computeNominalChange"]
  /\ fnRet' = computeNominalChange(fnInput.current, fnInput.previous)
  /\ UNCHANGED <<fnInput, alignVars, dateVars, rawVars, registryVars, viewVars>>

NextChange == ComputePercentChange \/ ComputeNominalChange

SpecChange == InitChange /\ [][NextChange]_vars

-----------------------------------------------------------------------------
(* The ladder as a function of the active date, the EFFR and one futures   *)
(* curve                                                                    *)

MaxPriceStep == 2

\* The contract months of the curve: the months that follow a quarter's end,
\* and others next to them.
LadderContractMonths ==
  <<[month |-> <<"J", "A", "N">>, yy |-> 25],
    [month |-> <<"M", "A", "R">>, yy |-> 25],
    [month |-> <<"A", "P", "R">>, yy |-> 25],
    [month |-> <<"J", "U", "N">>, yy |-> 25],
    [month |-> <<"J", "U", "L">>, yy |-> 25],
    [month |-> <<"O", "C", "T">>, yy |-> 25],
    [month |-> <<"D", "E", "C">>, yy |-> 25],
    [month |-> <<"J", "A", "N">>, yy |-> 26],
    [month |-> <<"A", "P", "R">>, yy |-> 26],
    [month |-> <<"J", "U", "L">>, yy |-> 26],
    [month |-> <<"O", "C", "T">>, yy |-> 26],
    [month |-> <<"J", "A", "N">>, yy |-> 27]>>

\* The price of the c-th contract, in hundredths.
LadderPrice(c, step) == 9500 + c * c + step * c

LadderTicker(month, yy) == month \o <<" ", "Z", "Q">> \o Decimal(yy, 2)

LadderSnapshot(time, step) ==
  [time |-> time,
   contracts |-> [c \in 1..Len(LadderContractMonths) |->
                    [sequence |-> 100 * c,
                     ticker |-> LadderTicker(LadderContractMonths[c].month,
                                             LadderContractMonths[c].yy),
                     price |-> LadderPrice(c, step)]]]

\* The 15th of every month of 2025 and the days around two quarter ends.
LadderActiveDates ==
  {[year |-> 2025, month |-> m, day |-> 15] : m \in 1..12}
    \cup {[year |-> 2025, month |-> 3, day |-> 31], [year |-> 2025, month |-> 4, day |-> 1],
          [year |-> 2025, month |-> 12, day |-> 31], [year |-> 2025, month |-> 1, day |-> 1]}

LadderEffrValues == {387, 433, 450}

LadderActiveTime == DaysFromCivil(fnInput.date.year, fnInput.date.month, fnInput.date.day) * DAY_MS

InitLadder ==
  /\ fnInput \in [date : LadderActiveDates, effr : LadderEffrValues, step : 0..MaxPriceStep]
  /\ fnCall = NoFnCall
  /\ fnRet = Null
  /\ AlignIdle
  /\ DateIdle
  /\ RegistryIdle
  /\ ViewIdle

\* The useMemo body of QuartlyCuts over an EFFR point and a futures snapshot
\* both dated the active date.
ComputeQuartlyCuts ==
  /\ fnCall = NoFnCall
  /\ fnCall' = [fn |-> "QuartlyCuts.data"]
  /\ fnRet' = QuartlyCutsData(Some(LadderActiveTime),
                              <<[time |-> LadderActiveTime, value |-> fnInput.effr]>>,
                              <<LadderSnapshot(LadderActiveTime, fnInput.step)>>)
  /\ UNCHANGED <<fnInput, alignVars, dateVars, rawVars, registryVars, viewVars>>

NextLadder == ComputeQuartlyCuts

SpecLadder == InitLadder /\ [][NextLadder]_vars

-----------------------------------------------------------------------------
(* The week key over pairs of timestamps around year boundaries *)

MaxWeekDays == 9

\* New Years after a 53-week year (2021, 2027), on a Saturday (2022) and on a
\* Wednesday (2025).
WeekYears == {2021, 2022, 2025, 2027}

WeekHours == {0, DAY_MS - 1}

WeekTimes ==
  {(DaysFromCivil(y, 1, 1) + d) * DAY_MS + h :
     y \in WeekYears, d \in -MaxWeekDays..MaxWeekDays, h \in WeekHours}

InitWeek ==
  /\ fnInput \in [a : WeekTimes, b : WeekTimes]
  /\ fnCall = NoFnCall
  /\ fnRet = Null
  /\ AlignIdle
  /\ DateIdle
  /\ RegistryIdle
  /\ ViewIdle

\* getIsoWeekKeyFromTime applied to both timestamps.
GetIsoWeekKeyFromTime ==
  /\ fnCall = NoFnCall
  /\ fnCall' = [fn |-> "getIsoWeekKeyFromTime"]
  /\ fnRet' = <<getIsoWeekKeyFromTime(fnInput.a), getIsoWeekKeyFromTime(fnInput.b)>>
  /\ UNCHANGED <<fnInput, alignVars, dateVars, rawVars, registryVars, viewVars>>

NextWeek == GetIsoWeekKeyFromTime

SpecWeek == InitWeek /\ [][NextWeek]_vars

-----------------------------------------------------------------------------
(* Module load over wide-format files with unmapped columns, blank cells    *)
(* and short rows                                                           *)

WideHeaderPool ==
  <<
  \* Date,"1 MO","3 MO"
  <<"D", "a", "t", "e", ",", "\"", "1", " ", "M", "O", "\"", ",", "\"", "3", " ", "M", "O", "\"">>,
  \* date,1 mo,Note,3 mo
  <<"d", "a", "t", "e", ",", "1", " ", "m", "o", ",", "N", "o", "t", "e", ",", "3", " ", "m", "o">>
  >>

WideLinePool ==
  <<
  \* 1/15/2025,4.50,4.75
  <<"1", "/", "1", "5", "/", "2", "0", "2", "5", ",", "4", ".", "5", "0", ",", "4", ".", "7", "5">>,
  \* 1/15/2025,,4.80
  <<"1", "/", "1", "5", "/", "2", "0", "2", "5", ",", ",", "4", ".", "8", "0">>,
  \* 1/15/2025,4.60
  <<"1", "/", "1", "5", "/", "2", "0", "2", "5", ",", "4", ".", "6", "0">>,
  \* "1/16/2025","4.40",7,4.90
  <<"\"", "1", "/", "1", "6", "/", "2", "0", "2", "5", "\"", ",", "\"", "4", ".", "4", "0", "\"", ",", "7", ",", "4", ".", "9", "0">>
  >>

NextWide ==
  \/ \E header \in SeqRange(WideHeaderPool) : LoadTreasuryFile(header)
  \/ \E line \in SeqRange(WideLinePool) : LoadTreasuryLine(line)

SpecWide == InitParse /\ [][NextWide]_vars

-----------------------------------------------------------------------------
(* The YieldSlopes and CreditSpreads rows over pairs of series *)

MaxRowPoints == 2

\* 1 January, two days of late May and June before the active date of June,
\* and a day after it.
RowPointDays ==
  {DaysFromCivil(2025, 1, 1), DaysFromCivil(2025, 5, 26), DaysFromCivil(2025, 6, 1),
   DaysFromCivil(2025, 6, 9)}

RowValues == {8000, 10000}

RowActiveTimes == {DaysFromCivil(2025, 6, 2) * DAY_MS, DaysFromCivil(2025, 3, 3) * DAY_MS}

RowSeries(n) ==
  UNION {{[i \in 1..k |-> [time |-> f[i] * DAY_MS, value |-> v[i]]] :
            f \in {g \in [1..k -> RowPointDays] :
                     \A i \in 1..k, j \in 1..k : i < j => g[i] < g[j]},
            v \in [1..k -> RowValues]} :
         k \in 0..n}

\* The other leg of a slope.
RowOtherLeg ==
  <<[time |-> DaysFromCivil(2025, 1, 1) * DAY_MS, value |-> 450],
    [time |-> DaysFromCivil(2025, 6, 2) * DAY_MS, value |-> 430]>>

InitRows ==
  /\ fnInput \in [a : RowSeries(MaxRowPoints), b : RowSeries(MaxRowPoints),
                  activeTime : RowActiveTimes]
  /\ fnCall = NoFnCall
  /\ fnRet = Null
  /\ AlignIdle
  /\ DateIdle
  /\ RegistryIdle
  /\ ViewIdle

\* The CreditSpreads row of series a and that of series b.
CreditSpreadsRows ==
  /\ fnCall = NoFnCall
  /\ fnCall' = [fn |-> "CreditSpreads"]
  /\ fnRet' = <<CreditSpreadRow(fnInput.a, fnInput.activeTime),
                CreditSpreadRow(fnInput.b, fnInput.activeTime)>>
  /\ UNCHANGED <<fnInput, alignVars, dateVars, rawVars, registryVars, viewVars>>

\* The YieldSlopes row with a as the left or right leg and that with b.
YieldSlopesRows(leg) ==
  /\ fnCall = NoFnCall
  /\ fnCall' = [fn |-> "YieldSlopes", leg |-> leg]
  /\ fnRet' = IF leg = "left"
              THEN <<YieldSlopeRow(fnInput.a, RowOtherLeg, fnInput.activeTime),
                     YieldSlopeRow(fnInput.b, RowOtherLeg, fnInput.activeTime)>>
              ELSE <<YieldSlopeRow(RowOtherLeg, fnInput.a, fnInput.activeTime),
                     YieldSlopeRow(RowOtherLeg, fnInput.b, fnInput.activeTime)>>
  /\ UNCHANGED <<fnInput, alignVars, dateVars, rawVars, registryVars, viewVars>>

NextRows ==
  \/ CreditSpreadsRows
  \/ \E leg \in {"left", "right"} : YieldSlopesRows(leg)

SpecRows == InitRows /\ [][NextRows]_vars

-----------------------------------------------------------------------------
(* FullWatchlist over the stox rows of equity_data.csv *)

\* date, name, ticker, tag, price.  46013 is 2025-12-22 and 46020 2025-12-29.
StoxLinePool ==
  <<
  \* 46020,x,SPX,stox,6000
  <<"4", "6", "0", "2", "0", ",", "x", ",", "S", "P", "X", ",", "s", "t", "o", "x", ",", "6", "0", "0", "0">>,
  \* 46013,x,SPX,stox,5900
  <<"4", "6", "0", "1", "3", ",", "x", ",", "S", "P", "X", ",", "s", "t", "o", "x", ",", "5", "9", "0", "0">>,
  \* 46020,x,nvda,stox,180
  <<"4", "6", "0", "2", "0", ",", "x", ",", "n", "v", "d", "a", ",", "s", "t", "o", "x", ",", "1", "8", "0">>,
  \* 46022,x,NVDA,stox,185
  <<"4", "6", "0", "2", "2", ",", "x", ",", "N", "V", "D", "A", ",", "s", "t", "o", "x", ",", "1", "8", "5">>,
  \* 46013,x,AAPL,stox,250
  <<"4", "6", "0", "1", "3", ",", "x", ",", "A", "A", "P", "L", ",", "s", "t", "o", "x", ",", "2", "5", "0">>,
  \* 46020,x,SPX,idx,6100
  <<"4", "6", "0", "2", "0", ",", "x", ",", "S", "P", "X", ",", "i", "d", "x", ",", "6", "1", "0", "0">>,
  \* 46020.4,x,AAPL,stox,255
  <<"4", "6", "0", "2", "0", ".", "4", ",", "x", ",", "A", "A", "P", "L", ",", "s", "t", "o", "x", ",", "2", "5", "5">>
  >>

\* The selected newsletter's sortDate: none, the listed days, days between and
\* after them, and a day more than 21 days after the last.
WatchlistActiveTimes ==
  {Null} \cup {Some(DaysFromCivil(2025, 12, 21) * DAY_MS), Some(DaysFromCivil(2025, 12, 22) * DAY_MS),
               Some(DaysFromCivil(2025, 12, 29) * DAY_MS), Some(DaysFromCivil(2026, 1, 2) * DAY_MS),
               Some(DaysFromCivil(2026, 1, 12) * DAY_MS), Some(DaysFromCivil(2026, 2, 1) * DAY_MS)}

\* A render of FullWatchlist.
RenderFullWatchlist(activeTime) ==
  /\ fnCall = NoFnCall
  /\ fnCall' = [fn |-> "FullWatchlist", activeTime |-> activeTime]
  /\ fnRet' = FullWatchlistRows(activeTime, WATCHLIST_STOX_SERIES)
  /\ UNCHANGED <<fnInput, alignVars, dateVars, rawVars, registryVars, viewVars>>

\* The module is loaded before the component renders.
LoadStoxLine(line) == fnCall = NoFnCall /\ LoadEquityLine(line)

NextWatchlist ==
  \/ \E i \in 1..Len(StoxLinePool) : LoadStoxLine(StoxLinePool[i])
  \/ \E activeTime \in WatchlistActiveTimes : RenderFullWatchlist(activeTime)

SpecWatchlist == InitParse /\ [][NextWatchlist]_vars

-----------------------------------------------------------------------------
(* RatesAndYield's cycle extremum over series around a month end *)

\* Days up to five weeks before Monday 31 March 2025, and the day after it.
CyclePointDays ==
  {DaysFromCivil(2025, 2, 26), DaysFromCivil(2025, 2, 28), DaysFromCivil(2025, 3, 3),
   DaysFromCivil(2025, 3, 9), DaysFromCivil(2025, 3, 10), DaysFromCivil(2025, 3, 24),
   DaysFromCivil(2025, 3, 29), DaysFromCivil(2025, 3, 31), DaysFromCivil(2025, 4, 1)}

CycleActiveTimes ==
  {DaysFromCivil(2025, 3, 29) * DAY_MS, DaysFromCivil(2025, 3, 31) * DAY_MS}

\* Every series of at most n points over CyclePointDays, strictly increasing
\* by time.
CycleSeries(n) ==
  UNION {{[i \in 1..k |-> [time |-> f[i] * DAY_MS, value |-> v[i]]] :
            f \in {g \in [1..k -> CyclePointDays] :
                     \A i \in 1..k, j \in 1..k : i < j => g[i] < g[j]},
            v \in [1..k -> DeriveValues]} :
         k \in 0..n}

\* What the user has typed into the cycle-months field.
CycleMonthsInputPool ==
  <<
  \* 12
  <<"1", "2">>,
  \* 1
  <<"1">>,
  \* 36
  <<"3", "6">>,
  \* 0
  <<"0">>,
  \* 99
  <<"9", "9">>,
  \* -3
  <<"-", "3">>,
  \* 2.7
  <<"2", ".", "7">>,
  \* abc
  <<"a", "b", "c">>,
  \* (blank)
  <<>>
  >>

InitCycle ==
  /\ fnInput \in [series : CycleSeries(MaxPoints), activeTime : CycleActiveTimes]
  /\ fnCall = NoFnCall
  /\ fnRet = Null
  /\ AlignIdle
  /\ DateIdle
  /\ RegistryIdle
  /\ ViewIdle

\* A render of RatesAndYield, for one instrument.
RenderRatesAndYield(cycleMode, cycleMonthsInput) ==
  /\ fnCall = NoFnCall
  /\ fnCall' = [fn |-> "RatesAndYield", cycleMode |-> cycleMode,
                cycleMonthsInput |-> cycleMonthsInput]
  /\ fnRet' = CycleCells(fnInput.series, fnInput.activeTime, cycleMode, cycleMonthsInput)
  /\ UNCHANGED <<fnInput, alignVars, dateVars, rawVars, registryVars, viewVars>>

NextCycle ==
  \E cycleMode \in {"high", "low"}, i \in 1..Len(CycleMonthsInputPool) :
    RenderRatesAndYield(cycleMode, CycleMonthsInputPool[i])

SpecCycle == InitCycle /\ [][NextCycle]_vars

-----------------------------------------------------------------------------
(* Alignment claims *)

\* Largest element of a non-empty set of integers.
SetMax(S) == CHOOSE m \in S : \A x \in S : x <= m

\* 1-based positions of the points at or before the target.
PriorPositions(points, targetTime) ==
  {i \in 1..Len(points) : points[i].time <= targetTime}

\* 1-based positions of the points at or before the target and in its ISO week.
SameWeekPositions(points, targetTime) ==
  {i \in PriorPositions(points, targetTime) :
     getIsoWeekKeyFromTime(points[i].time) = getIsoWeekKeyFromTime(targetTime)}

IndexCallDone == alignCall.fn = "resolveAlignedPointIndex"

\* C1: when some point has time <= targetTime and the target's ISO week key,
\* resolveAlignedPointIndex returns the highest index of such a point.
C1_LastSameWeekPoint ==
  (IndexCallDone /\ SameWeekPositions(alignPoints, alignCall.targetTime) # {})
    => alignRet = SetMax(SameWeekPositions(alignPoints, alignCall.targetTime)) - 1

\* Two same-week points at or before the target, the later one returned.
C1_Witness ==
  /\ IndexCallDone
  /\ Cardinality(SameWeekPositions(alignPoints, alignCall.targetTime)) >= 2
  /\ alignRet = 1

\* C2: with no same-week point at or before the target, the most recent prior
\* point is returned exactly when it is at most maxGapDays days old, otherwise
\* the result is not-found; so at 21 days it is found, at 22 days it is not.
C2_GapCeiling ==
  (/\ IndexCallDone
   /\ SameWeekPositions(alignPoints, alignCall.targetTime) = {}
   /\ PriorPositions(alignPoints, alignCall.targetTime) # {})
    => LET last == SetMax(PriorPositions(alignPoints, alignCall.targetTime))
           age  == alignCall.targetTime - alignPoints[last].time
       IN  /\ age <= alignCall.maxGapDays * DAY_MS => alignRet = last - 1
           /\ age > alignCall.maxGapDays * DAY_MS => alignRet = -1
           /\ (alignCall.maxGapDays = 21 /\ age = 21 * DAY_MS) => alignRet = last - 1
           /\ (alignCall.maxGapDays = 21 /\ age = 22 * DAY_MS) => alignRet = -1

\* The most recent prior point is exactly 21 days old and is returned under
\* the default ceiling.
C2_Witness ==
  /\ IndexCallDone
  /\ alignCall.maxGapDays = MAX_ALIGNMENT_GAP_DAYS_DEFAULT
  /\ SameWeekPositions(alignPoints, alignCall.targetTime) = {}
  /\ PriorPositions(alignPoints, alignCall.targetTime) # {}
  /\ alignCall.targetTime
       - alignPoints[SetMax(PriorPositions(alignPoints, alignCall.targetTime))].time
       = 21 * DAY_MS
  /\ alignRet >= 0

\* The most recent prior point is 22 days old and the result is not-found.
C2_Witness22 ==
  /\ IndexCallDone
  /\ alignCall.maxGapDays = MAX_ALIGNMENT_GAP_DAYS_DEFAULT
  /\ PriorPositions(alignPoints, alignCall.targetTime) # {}
  /\ alignCall.targetTime
       - alignPoints[SetMax(PriorPositions(alignPoints, alignCall.targetTime))].time
       = 22 * DAY_MS
  /\ alignRet = -1

\* C3: not-found for an empty series or one wholly after the target; a returned
\* index names a point at or before the target; getAlignedPoint and
\* resolveAlignedTime return null exactly on not-found and otherwise the point
\* (the time) at the returned index.
C3_NotFoundAndWrappers ==
  LET index == resolveAlignedPointIndex(alignPoints, alignCall.targetTime,
                                        alignCall.maxGapDays)
  IN  /\ IndexCallDone =>
           /\ alignRet \in -1..(Len(alignPoints) - 1)
           /\ PriorPositions(alignPoints, alignCall.targetTime) = {} => alignRet = -1
           /\ alignRet >= 0 => alignPoints[alignRet + 1].time <= alignCall.targetTime
      /\ alignCall.fn = "getAlignedPoint" =>
           /\ alignRet = Null <=> index = -1
           /\ index >= 0 => /\ alignRet = Some(alignPoints[index + 1])
                            /\ alignRet[1].time <= alignCall.targetTime
           /\ PriorPositions(alignPoints, alignCall.targetTime) = {} => alignRet = Null
      /\ alignCall.fn = "resolveAlignedTime" =>
           /\ alignRet = Null <=> index = -1
           /\ index >= 0 => /\ alignRet = Some(alignPoints[index + 1].time)
                            /\ alignRet[1] <= alignCall.targetTime
           /\ PriorPositions(alignPoints, alignCall.targetTime) = {} => alignRet = Null

\* A non-empty series whose points all lie after the target, one of them in the
\* target's ISO week: the index is not-found.
C3_Witness ==
  /\ IndexCallDone
  /\ Len(alignPoints) > 0
  /\ PriorPositions(alignPoints, alignCall.targetTime) = {}
  /\ \E i \in 1..Len(alignPoints) :
       getIsoWeekKeyFromTime(alignPoints[i].time)
         = getIsoWeekKeyFromTime(alignCall.targetTime)
  /\ alignRet = -1

\* C4 (premise): a point two days before the target in the target's ISO week
\* together with a point one day before the target in another week.
C4_Premise ==
  /\ IndexCallDone
  /\ \E i \in 1..Len(alignPoints), j \in 1..Len(alignPoints) :
       /\ alignPoints[i].time = alignCall.targetTime - 2 * DAY_MS
       /\ getIsoWeekKeyFromTime(alignPoints[i].time)
            = getIsoWeekKeyFromTime(alignCall.targetTime)
       /\ alignPoints[j].time = alignCall.targetTime - DAY_MS
       /\ getIsoWeekKeyFromTime(alignPoints[j].time)
            # getIsoWeekKeyFromTime(alignCall.targetTime)

\* C4: in that case the same-week point is the one selected.
C4_SameWeekPreferred ==
  C4_Premise =>
    alignPoints[alignRet + 1].time = alignCall.targetTime - 2 * DAY_MS

\* The premise of C4 never holds: weeks are contiguous, so a day between a
\* same-week day and the target is in the target's week too.
C4_PremiseNeverHolds == ~C4_Premise

\* The single nearest-prior rule: the index of the most recent point at or
\* before the target when that point is at most maxGapDays days old, else -1.
NearestPriorIndex(points, targetTime, maxGapDays) ==
  IF PriorPositions(points, targetTime) = {} THEN -1
  ELSE IF targetTime - points[SetMax(PriorPositions(points, targetTime))].time
            <= maxGapDays * DAY_MS
       THEN SetMax(PriorPositions(points, targetTime)) - 1
       ELSE -1

\* C23: for a series sorted ascending by UTC-midnight times, a UTC-midnight
\* target and maxGapDays >= 6, resolveAlignedPointIndex returns exactly what
\* the nearest-prior rule returns: the same-week phase never selects another
\* index.
C23_NearestPriorRule ==
  (IndexCallDone /\ alignCall.maxGapDays >= 6)
    => alignRet = NearestPriorIndex(alignPoints, alignCall.targetTime, alignCall.maxGapDays)

\* Ceiling 6, the target a Sunday and the only prior point the Monday of its
\* week, six days old: returned by both rules.
C23_Witness ==
  /\ IndexCallDone
  /\ alignCall.maxGapDays = 6
  /\ alignCall.targetTime = (AlignBaseDay + 6) * DAY_MS
  /\ Len(alignPoints) = 1
  /\ alignPoints[1].time = AlignBaseDay * DAY_MS
  /\ alignRet = 0

\* Below 6 the rules differ: ceiling 3, a same-week point four days old is
\* returned by the same-week phase.
C23_SmallCeilingDiffers ==
  /\ IndexCallDone
  /\ alignCall.maxGapDays < 6
  /\ alignRet >= 0
  /\ NearestPriorIndex(alignPoints, alignCall.targetTime, alignCall.maxGapDays) = -1

\* The time of the observation a finished call selected, or Null when it
\* selected none.
SelectedTime ==
  IF alignCall.fn \in {"resolveAlignedPointIndex", "getActiveIndex", "resolveEndpointIndex",
                       "resolveActiveIndex"}
  THEN (IF alignRet >= 0 THEN Some(alignPoints[alignRet + 1].time) ELSE Null)
  ELSE IF alignCall.fn = "resolveWeekPoint"
       THEN (IF alignRet = Null THEN Null ELSE Some(alignRet[1].time))
       ELSE IF alignCall.fn = "resolveSnapshotTime" THEN alignRet
            ELSE Null

\* The routines with the `time <= target` test in both loops select nothing
\* after the target.
C24_CeilingRoutinesNeverAhead ==
  (alignCall.fn \in {"resolveAlignedPointIndex", "resolveActiveIndex", "resolveWeekPoint"}
     /\ SelectedTime # Null)
    => SelectedTime[1] <= alignCall.targetTime

\* C24: every alignment routine a component uses, the inline getActiveIndex,
\* resolveSnapshotTime and resolveEndpointIndex included, selects only an
\* observation dated at or before the active time it is given.
C24_NeverAheadOfActiveTime ==
  SelectedTime # Null => SelectedTime[1] <= alignCall.targetTime

\* getActiveIndex has selected a point of the active week that is dated after
\* the active time.
C24_ActiveIndexAhead ==
  /\ alignCall.fn = "getActiveIndex"
  /\ alignRet >= 0
  /\ alignPoints[alignRet + 1].time > alignCall.targetTime

C24_SnapshotTimeAhead ==
  /\ alignCall.fn = "resolveSnapshotTime"
  /\ alignRet # Null
  /\ alignRet[1] > alignCall.targetTime

\* resolveEndpointIndex has fallen back to the first point, which is later
\* than the active time.
C24_EndpointAhead ==
  /\ alignCall.fn = "resolveEndpointIndex"
  /\ alignRet = 0
  /\ alignPoints[1].time > alignCall.targetTime

\* The three routines with the 21-day ceiling agree on every series and
\* target, and report not-found when the most recent prior point is more
\* than 21 days before the target.
C25_CeilingSitesAgree ==
  LET index == resolveAlignedPointIndex(alignPoints, alignCall.targetTime,
                                        MAX_ALIGNMENT_GAP_DAYS_DEFAULT)
      prior == PriorPositions(alignPoints, alignCall.targetTime)
      tooOld == /\ prior # {}
                /\ alignCall.targetTime - alignPoints[SetMax(prior)].time > 21 * DAY_MS
  IN  /\ alignCall.fn = "resolveActiveIndex"
           => alignRet = index /\ (tooOld => alignRet = -1)
      /\ alignCall.fn = "resolveWeekPoint"
           => alignRet = ItemAt(alignPoints, index) /\ (tooOld => alignRet = Null)
      /\ (alignCall.fn = "resolveAlignedPointIndex" /\ alignCall.maxGapDays = 21)
           => alignRet = index /\ (tooOld => alignRet = -1)

\* C25: resolveAlignedPointIndex, RatesAndYield.resolveActiveIndex and
\* YieldCurveGraph.resolveWeekPoint agree on every sorted series and target
\* and report not-found when the most recent prior point is more than 21 days
\* before the target, whereas the inline getActiveIndex returns the most
\* recent prior point however old it is.
C25_CallSitesDiffer ==
  /\ C25_CeilingSitesAgree
  /\ (alignCall.fn = "getActiveIndex"
        /\ PriorPositions(alignPoints, alignCall.targetTime) # {})
       => alignRet = SetMax(PriorPositions(alignPoints, alignCall.targetTime)) - 1

\* With no point of the active week after the active time, getActiveIndex
\* does return the most recent prior point however old.
C25_ActiveIndexWithoutLaterWeekPoint ==
  (/\ alignCall.fn = "getActiveIndex"
   /\ PriorPositions(alignPoints, alignCall.targetTime) # {}
   /\ ~\E i \in 1..Len(alignPoints) :
         /\ alignPoints[i].time > alignCall.targetTime
         /\ getIsoWeekKeyFromTime(alignPoints[i].time)
              = getIsoWeekKeyFromTime(alignCall.targetTime))
    => alignRet = SetMax(PriorPositions(alignPoints, alignCall.targetTime)) - 1

\* The most recent prior point is 22 days old: getActiveIndex returns it.
C25_ActiveIndexReturnsOldPoint ==
  /\ alignCall.fn = "getActiveIndex"
  /\ Len(alignPoints) = 1
  /\ alignCall.targetTime - alignPoints[1].time = 22 * DAY_MS
  /\ alignRet = 0

\* A prior point and a later point of the active week: getActiveIndex
\* returns the later one.
C25_ActiveIndexSkipsPriorPoint ==
  /\ alignCall.fn = "getActiveIndex"
  /\ Len(alignPoints) = 2
  /\ alignPoints[1].time <= alignCall.targetTime
  /\ alignPoints[2].time > alignCall.targetTime
  /\ alignRet = 1

\* The earlier target days a finished query is compared with.
EarlierTargets == {t \in AlignTargetTimes : t < alignCall.targetTime}

\* C28: alignment is monotonic in the target: for a sorted series and targets
\* t1 <= t2 that both resolve, the index found for t1 is at most the index
\* found for t2; hence the two-weeks-ago observation is never later than the
\* last-week observation, which is never later than the current observation.
C28_MonotonicInTarget ==
  (IndexCallDone /\ alignRet >= 0) =>
    LET lastWeek == resolveAlignedPointIndex(alignPoints, alignCall.targetTime - 7 * DAY_MS,
                                             alignCall.maxGapDays)
        twoWeeks == resolveAlignedPointIndex(alignPoints, alignCall.targetTime - 14 * DAY_MS,
                                             alignCall.maxGapDays)
    IN  /\ \A t1 \in EarlierTargets :
             LET earlier == resolveAlignedPointIndex(alignPoints, t1, alignCall.maxGapDays)
             IN  earlier >= 0 => earlier <= alignRet
        /\ lastWeek >= 0
             => /\ lastWeek <= alignRet
                /\ alignPoints[lastWeek + 1].time <= alignPoints[alignRet + 1].time
        /\ twoWeeks >= 0 => twoWeeks <= alignRet
        /\ (twoWeeks >= 0 /\ lastWeek >= 0)
             => /\ twoWeeks <= lastWeek
                /\ alignPoints[twoWeeks + 1].time <= alignPoints[lastWeek + 1].time

\* The current observation is a later point than the last-week observation.
C28_Witness ==
  /\ IndexCallDone
  /\ alignCall.maxGapDays = MAX_ALIGNMENT_GAP_DAYS_DEFAULT
  /\ alignRet = 1
  /\ resolveAlignedPointIndex(alignPoints, alignCall.targetTime - 7 * DAY_MS,
                              alignCall.maxGapDays) = 0
  /\ resolveAlignedPointIndex(alignPoints, alignCall.targetTime - 14 * DAY_MS,
                              alignCall.maxGapDays) = 0

\* The last-week observation is a later point than the two-weeks-ago one.
C28_WitnessTwoWeeks ==
  /\ IndexCallDone
  /\ alignRet = 1
  /\ resolveAlignedPointIndex(alignPoints, alignCall.targetTime - 7 * DAY_MS,
                              alignCall.maxGapDays) = 1
  /\ resolveAlignedPointIndex(alignPoints, alignCall.targetTime - 14 * DAY_MS,
                              alignCall.maxGapDays) = 0

-----------------------------------------------------------------------------
(* Derivation claims *)

\* The positions of the series that was drawn.
DerivePositions == 1..Len(fnInput)

\* v is the largest value over the positions `among`.
IsMaxValueOver(v, among) ==
  /\ \E i \in among : fnInput[i].value = v
  /\ \A i \in among : fnInput[i].value <= v

RollingInWindow ==
  {i \in DerivePositions :
     /\ fnCall.endTime - fnCall.windowMs <= fnInput[i].time
     /\ fnInput[i].time <= fnCall.endTime}

RollingUpToEnd == {i \in DerivePositions : fnInput[i].time <= fnCall.endTime}

\* C11: computeRollingHigh returns the largest value of the points with
\* endTime - windowMs <= time <= endTime; when no point lies in that window,
\* the largest value of the points with time <= endTime; and null exactly when
\* no point has time <= endTime.
C11_RollingHigh ==
  fnCall.fn = "computeRollingHigh" =>
    /\ RollingInWindow # {} =>
         fnRet # Null /\ IsMaxValueOver(fnRet[1], RollingInWindow)
    /\ RollingInWindow = {} /\ RollingUpToEnd # {} =>
         fnRet # Null /\ IsMaxValueOver(fnRet[1], RollingUpToEnd)
    /\ fnRet = Null <=> RollingUpToEnd = {}

\* Every point is older than the window and the high comes from them.
C11_Witness ==
  /\ fnCall.fn = "computeRollingHigh"
  /\ RollingInWindow = {}
  /\ Cardinality(RollingUpToEnd) >= 2
  /\ fnRet # Null

\* A point lies exactly on each end of the window and the older one is the high.
C11_WitnessInclusive ==
  /\ fnCall.fn = "computeRollingHigh"
  /\ \E i \in RollingInWindow, j \in RollingInWindow :
       /\ fnInput[i].time = fnCall.endTime - fnCall.windowMs
       /\ fnInput[j].time = fnCall.endTime
       /\ fnInput[i].value > fnInput[j].value
       /\ fnRet = Some(fnInput[i].value)

\* 1 January of the year, 00:00 UTC.
YearStartTime(year) == DaysFromCivil(year, 1, 1) * DAY_MS

AnchorOnOrBeforeStart ==
  {i \in DerivePositions : fnInput[i].time <= YearStartTime(fnCall.year)}

AnchorInYear ==
  {i \in DerivePositions :
     /\ YearStartTime(fnCall.year) <= fnInput[i].time
     /\ fnInput[i].time < YearStartTime(fnCall.year + 1)}

AnchorCallDone ==
  fnCall.fn \in {"getYearAnchorValue", "CreditSpreads.getYearAnchorValue"}

\* C12: on a sorted series getYearAnchorValue returns the value of the last
\* point with time <= 1 January UTC of the year; when there is none, the value
\* of the first point of that calendar year; and null otherwise.
C12_YearAnchor ==
  AnchorCallDone =>
    IF AnchorOnOrBeforeStart # {}
    THEN fnRet = Some(fnInput[CHOOSE i \in AnchorOnOrBeforeStart :
                                \A j \in AnchorOnOrBeforeStart : j <= i].value)
    ELSE IF AnchorInYear # {}
    THEN fnRet = Some(fnInput[CHOOSE i \in AnchorInYear :
                                \A j \in AnchorInYear : i <= j].value)
    ELSE fnRet = Null

\* The anchor is a point dated 1 January itself, and an older point has
\* another value.
C12_Witness ==
  /\ AnchorCallDone
  /\ \E i \in AnchorOnOrBeforeStart, j \in AnchorOnOrBeforeStart :
       /\ fnInput[i].time = YearStartTime(fnCall.year)
       /\ fnInput[j].value # fnInput[i].value
       /\ fnRet = Some(fnInput[i].value)

\* No point on or before 1 January: the first point of the year is the anchor.
C12_WitnessFirstInYear ==
  /\ AnchorCallDone
  /\ AnchorOnOrBeforeStart = {}
  /\ Cardinality(AnchorInYear) >= 2
  /\ fnRet # Null

\* No point on or before 1 January and none in the year: no anchor.
C12_WitnessNone ==
  /\ AnchorCallDone
  /\ fnInput # <<>>
  /\ fnRet = Null

\* The days of the 0-based month m of year y.
MonthLength(y, m) == MonthStartDay(y, m + 1) - MonthStartDay(y, m)

\* The midnight of day d of the month that lies `months` calendar months
\* before the 0-based month m of year y; a day the earlier month does not
\* have is its last day.
MonthsBefore(y, m, d, months) ==
  LET ty  == y + (m - months) \div 12
      tm  == (m - months) % 12
      day == IF d <= MonthLength(ty, tm) THEN d ELSE MonthLength(ty, tm)
  IN  (DayFromYear(ty) + MonthStartDay(ty, tm) + day - 1) * DAY_MS

\* `time` shifted back by `months` calendar months.
CalendarMonthsBack(time, months) ==
  MonthsBefore(getUTCFullYear(time), getUTCMonth(time), getUTCDate(time), months)

\* The point at position i is the extreme of the positions `considered` for
\* the mode, and the most recent of those of its value.
IsCycleExtreme(i, considered, mode) ==
  \A j \in considered :
    /\ IF mode = "high" THEN fnInput[j].value <= fnInput[i].value
       ELSE fnInput[j].value >= fnInput[i].value
    /\ fnInput[j].value = fnInput[i].value => fnInput[j].time <= fnInput[i].time

\* What getCyclePoint has to return over a window that starts at windowStart.
CyclePointOver(windowStart) ==
  IF fnCall.activeIndex < 0 THEN fnRet = Null
  ELSE LET considered == {i \in 1..(fnCall.activeIndex + 1) :
                            fnInput[i].time >= windowStart}
       IN  IF considered = {} THEN fnRet = Null
           ELSE /\ fnRet # Null
                /\ \E i \in considered :
                     fnRet[1] = fnInput[i] /\ IsCycleExtreme(i, considered, fnCall.mode)

\* C13: getCyclePoint considers exactly the points at indices 0..activeIndex
\* whose time is >= activeTime shifted back by cycleMonths calendar months and
\* returns the one of maximum (high) or minimum (low) value, the most recent
\* among equals; it returns null when activeIndex is not-found.
C13_CyclePoint ==
  fnCall.fn = "getCyclePoint" =>
    CyclePointOver(CalendarMonthsBack(fnCall.activeTime, fnCall.cycleMonths))

\* The same selection over the window start the code computes holds always:
\* only the start of the window differs.
C13_CyclePointOverRolledWindow ==
  fnCall.fn = "getCyclePoint" =>
    CyclePointOver(getWindowStartTime(fnCall.activeTime, fnCall.cycleMonths))

\* The window start the code computes lies after the calendar shift, and a
\* point between the two is left out though its value is the extreme.
C13_MonthEndRollsOver ==
  /\ fnCall.fn = "getCyclePoint"
  /\ fnCall.activeIndex >= 0
  /\ \E i \in 1..(fnCall.activeIndex + 1) :
       /\ fnInput[i].time >= CalendarMonthsBack(fnCall.activeTime, fnCall.cycleMonths)
       /\ fnInput[i].time < getWindowStartTime(fnCall.activeTime, fnCall.cycleMonths)
       /\ fnRet # Null
       /\ fnCall.mode = "high"
       /\ fnInput[i].value > fnRet[1].value

\* C14: computePercentChange returns null when current is null, previous is
\* null or previous is 0, and otherwise the number current / previous - 1;
\* computeNominalChange returns null when either input is null and otherwise
\* current - previous; the result is always null or a number.
C14_ChangeFunctions ==
  /\ fnCall.fn = "computePercentChange" =>
       IF fnInput.current = Null \/ fnInput.previous = Null \/ fnInput.previous = Some(0)
       THEN fnRet = Null
       ELSE /\ fnRet # Null
            /\ fnRet[1].den > 0
            /\ fnRet[1].num * fnInput.previous[1]
                 = (fnInput.current[1] - fnInput.previous[1]) * fnRet[1].den
  /\ fnCall.fn = "computeNominalChange" =>
       IF fnInput.current = Null \/ fnInput.previous = Null
       THEN fnRet = Null
       ELSE fnRet = Some(fnInput.current[1] - fnInput.previous[1])

\* percentChange(100, 0) is null.
C14_Witness ==
  /\ fnCall.fn = "computePercentChange"
  /\ fnInput.current = Some(10000)
  /\ fnInput.previous = Some(0)
  /\ fnRet = Null

\* percentChange(110, 100) is 0.1.
C14_WitnessTenth ==
  /\ fnCall.fn = "computePercentChange"
  /\ fnInput.current = Some(11000)
  /\ fnInput.previous = Some(10000)
  /\ fnRet # Null
  /\ fnRet[1].num * 10 = fnRet[1].den

\* A negative previous value: the change keeps the sign of current / previous - 1.
C14_WitnessNegativePrevious ==
  /\ fnCall.fn = "computePercentChange"
  /\ fnInput.previous # Null
  /\ fnInput.previous[1] < 0
  /\ fnInput.current # Null
  /\ fnInput.current[1] > 0
  /\ fnRet # Null
  /\ fnRet[1].num < 0

\* The series of the example: 100 on 2025-01-01 and 80 on 2025-06-01.
C22_Series ==
  <<[time |-> DaysFromCivil(2025, 1, 1) * DAY_MS, value |-> 10000],
    [time |-> DaysFromCivil(2025, 6, 1) * DAY_MS, value |-> 8000]>>

\* C22: for the credit-spread series [(2025-01-01, 100), (2025-06-01, 80)]
\* and the active date 2025-06-02 the CreditSpreads row has the year-start
\* anchor 100, the current aligned value 80 and the YTD change -20.
C22_CreditSpreadsExample ==
  (/\ fnCall.fn = "CreditSpreads"
   /\ fnInput.a = C22_Series
   /\ fnInput.activeTime = DaysFromCivil(2025, 6, 2) * DAY_MS)
    => /\ fnRet[1].yearStart = Some(10000)
       /\ fnRet[1].thisWeek = Some(8000)
       /\ fnRet[1].ytd = Some(-2000)

C22_Witness ==
  /\ fnCall.fn = "CreditSpreads"
  /\ fnInput.a = C22_Series
  /\ fnInput.activeTime = DaysFromCivil(2025, 6, 2) * DAY_MS
  /\ fnRet[1].ytd = Some(-2000)

\* The points of a series dated at or before a time.
PointsUpTo(series, time) ==
  LET Keep(point) == point.time <= time
  IN  SelectSeq(series, Keep)

RowsCallDone == fnCall.fn \in {"CreditSpreads", "YieldSlopes"}

RowsAgreeUpToActive ==
  PointsUpTo(fnInput.a, fnInput.activeTime) = PointsUpTo(fnInput.b, fnInput.activeTime)

\* What holds: the aligned columns do not depend on points after the active
\* date.
C26_AlignedColumnsIgnoreFuture ==
  (RowsCallDone /\ RowsAgreeUpToActive)
    => /\ fnRet[1].thisWeek = fnRet[2].thisWeek
       /\ fnRet[1].lastWeek = fnRet[2].lastWeek
       /\ fnRet[1].delta = fnRet[2].delta
       /\ fnRet[1].ytd = fnRet[2].ytd

\* C26: two series that agree on every point with time <= the active date
\* give identical this-week, last-week, delta, year-start and YTD values in
\* the YieldSlopes and CreditSpreads tables.
C26_NoFutureDependence ==
  (RowsCallDone /\ RowsAgreeUpToActive) => fnRet[1] = fnRet[2]

\* Active date 2025-03-03: one series is empty, the other has its only point
\* on 2025-06-01, and the year-start columns differ.
C26_YearStartFromFuture ==
  /\ fnCall.fn = "CreditSpreads"
  /\ fnInput.activeTime = DaysFromCivil(2025, 3, 3) * DAY_MS
  /\ fnInput.a = <<>>
  /\ fnInput.b = <<[time |-> DaysFromCivil(2025, 6, 1) * DAY_MS, value |-> 8000]>>
  /\ fnRet[1].yearStart = Null
  /\ fnRet[2].yearStart = Some(8000)

-----------------------------------------------------------------------------
(* Date-token claims *)

DateParsed == dateRet # "pending"

\* C6: a token is accepted only if it is written M/D/YYYY with a month in
\* 1..12, and the result is UTC midnight of that very calendar date; any other
\* token gives null.
C6_StrictUsDate ==
  (DateParsed /\ dateRet # Null) =>
    /\ dateCase.shape \in WellFormedShapes
    /\ dateCase.month \in 1..12
    /\ dateRet[1] % DAY_MS = 0
    /\ getUTCFullYear(dateRet[1]) = dateCase.year
    /\ getUTCMonth(dateRet[1]) = dateCase.month - 1
    /\ getUTCDate(dateRet[1]) = dateCase.day

-----------------------------------------------------------------------------
(* Parser claims *)

StrictlyIncreasing(series) ==
  \A i \in 1..(Len(series) - 1) : series[i].time < series[i + 1].time

\* Every series of the registry, as a set.
RegistrySeries ==
  {TREASURY_SERIES[ticker] : ticker \in DOMAIN TREASURY_SERIES}
    \cup {MAJOR_INDEX_SERIES[ticker] : ticker \in DOMAIN MAJOR_INDEX_SERIES}
    \cup {WATCHLIST_STOX_SERIES.seriesByTicker[i][2] :
            i \in 1..Len(WATCHLIST_STOX_SERIES.seriesByTicker)}
    \cup {INDUSTRY_SERIES[id].us : id \in DOMAIN INDUSTRY_SERIES}
    \cup {INDUSTRY_SERIES[id].eu : id \in DOMAIN INDUSTRY_SERIES}
    \cup {CREDIT_SPREAD_SERIES[ticker] : ticker \in DOMAIN CREDIT_SPREAD_SERIES}
    \cup {EFFR_SERIES}

\* C7: whatever rows the files hold, in whatever order and with whatever
\* repeated dates, every series the treasury, major-index, watchlist,
\* industry, credit-spread and EFFR parsers return, and the list of futures
\* snapshots, is strictly increasing by time.
C7_SeriesStrictlyIncreasing ==
  /\ \A series \in RegistrySeries : StrictlyIncreasing(series)
  /\ StrictlyIncreasing(FED_FUTURES_SNAPSHOTS)
  /\ \A i \in 1..(Len(WATCHLIST_STOX_SERIES.sortedTimes) - 1) :
       WATCHLIST_STOX_SERIES.sortedTimes[i] < WATCHLIST_STOX_SERIES.sortedTimes[i + 1]

\* The rows a parser accepted, in parse order.
RECURSIVE AcceptedPoints(_, _)
AcceptedPoints(RowPoint(_), lines) ==
  IF Len(lines) = 0 THEN <<>>
  ELSE RowPoint(lines[1]) \o AcceptedPoints(RowPoint, Tail(lines))

\* C7 witness: the EFFR rows come later date first and one date comes twice,
\* and the series has the two dates.
C7_Witness ==
  LET rows == AcceptedPoints(EffrRowPoint, durationDataCsv)
  IN  /\ Len(rows) = 3
      /\ rows[1].time > rows[2].time
      /\ rows[3].time = rows[1].time
      /\ Len(EFFR_SERIES) = 2

\* The points of one file in parse order, as the treasury parser reads them.
RECURSIVE TreasuryPointsOfFiles(_)
TreasuryPointsOfFiles(files) ==
  IF Len(files) = 0 THEN <<>>
  ELSE TreasuryFilePoints(files[1]) \o TreasuryPointsOfFiles(Tail(files))

\* For every accepted row of the instrument the series has exactly one point
\* of the row's date, and that point has the value of the last such row.
LastRowWins(series, rows) ==
  \A i \in 1..Len(rows) :
    LET at == {k \in 1..Len(series) : series[k].time = rows[i].time}
    IN  /\ Cardinality(at) = 1
        /\ (\A j \in (i + 1)..Len(rows) : rows[j].time # rows[i].time)
             => \A k \in at : series[k].value = rows[i].value

\* The rows of one instrument among accepted rows that carry a ticker.
RECURSIVE RowsOfTicker(_, _)
RowsOfTicker(rows, ticker) ==
  IF Len(rows) = 0 THEN <<>>
  ELSE (IF rows[1].ticker = ticker THEN <<rows[1]>> ELSE <<>>)
       \o RowsOfTicker(Tail(rows), ticker)

RECURSIVE RowsOfIndustry(_, _, _)
RowsOfIndustry(rows, industryId, region) ==
  IF Len(rows) = 0 THEN <<>>
  ELSE (IF rows[1].industryId = industryId /\ rows[1].region = region
        THEN <<rows[1]>> ELSE <<>>)
       \o RowsOfIndustry(Tail(rows), industryId, region)

\* C8: when several accepted rows carry the same instrument and date, in one
\* file or across the treasury files in load order, the series holds exactly
\* one point for that date, with the value of the last accepted row in parse
\* order.
C8_LastAcceptedRowWins ==
  LET effrRows     == AcceptedPoints(EffrRowPoint, durationDataCsv)
      creditRows   == AcceptedPoints(CreditRowPoint, durationDataCsv)
      majorRows    == AcceptedPoints(MajorRowPoint, equityDataCsv)
      stoxRows     == AcceptedPoints(StoxRowPoint, equityDataCsv)
      industryRows == AcceptedPoints(IndustryRowPoint, equityDataCsv)
      treasuryRows == TreasuryPointsOfFiles(treasuryRatesCsv)
      watchlist    == WATCHLIST_STOX_SERIES.seriesByTicker
  IN  /\ LastRowWins(EFFR_SERIES, effrRows)
      /\ \A ticker \in DOMAIN CREDIT_SPREAD_SERIES :
           LastRowWins(CREDIT_SPREAD_SERIES[ticker], RowsOfTicker(creditRows, ticker))
      /\ \A ticker \in DOMAIN MAJOR_INDEX_SERIES :
           LastRowWins(MAJOR_INDEX_SERIES[ticker], RowsOfTicker(majorRows, ticker))
      /\ \A i \in 1..Len(watchlist) :
           LastRowWins(watchlist[i][2], RowsOfTicker(stoxRows, watchlist[i][1]))
      /\ \A row \in SeqRange(stoxRows) :
           \E i \in 1..Len(watchlist) : watchlist[i][1] = row.ticker
      /\ \A id \in DOMAIN INDUSTRY_SERIES :
           /\ LastRowWins(INDUSTRY_SERIES[id].us, RowsOfIndustry(industryRows, id, "us"))
           /\ LastRowWins(INDUSTRY_SERIES[id].eu, RowsOfIndustry(industryRows, id, "eu"))
      /\ \A ticker \in DOMAIN TREASURY_SERIES :
           LastRowWins(TREASURY_SERIES[ticker], RowsOfTicker(treasuryRows, ticker))

\* C8 witness: two treasury files give the same instrument and date different
\* values, and the series has the second file's value.
C8_Witness ==
  /\ Len(treasuryRatesCsv) = 2
  /\ \E first \in SeqRange(TreasuryFilePoints(treasuryRatesCsv[1])) :
       \E second \in SeqRange(TreasuryFilePoints(treasuryRatesCsv[2])) :
         /\ first.ticker = second.ticker
         /\ first.time = second.time
         /\ first.value # second.value
         /\ \E k \in 1..Len(TREASURY_SERIES[first.ticker]) :
              TREASURY_SERIES[first.ticker][k] = [time |-> second.time, value |-> second.value]

\* Two rows of one file give the same instrument and date different values,
\* and the series has the later row's value.
C8_WitnessWithinFile ==
  LET rows == AcceptedPoints(EffrRowPoint, durationDataCsv)
  IN  /\ Len(rows) = 2
      /\ rows[1].time = rows[2].time
      /\ rows[1].value # rows[2].value
      /\ EFFR_SERIES = <<rows[2]>>

\* The category tag and the ticker of a long-format row as the parsers read
\* them.
RowTag(line) == toLowerCase(Trim(PartAt(parseCsvLine(line), 3)))

RowTicker(line) == toUpperCase(Trim(PartAt(parseCsvLine(line), 2)))

\* The rows of a file that carry a tag and whose ticker is one of `known`.
RowsTaggedAndKnown(lines, tag, known) ==
  LET Keep(line) == RowTag(line) = tag /\ RowTicker(line) \in known
  IN  SelectSeq(lines, Keep)

RowsTagged(lines, tag) ==
  LET Keep(line) == RowTag(line) = tag
  IN  SelectSeq(lines, Keep)

\* The tags that occur in the rows the files are made of.
LongFormatTags ==
  {RowTag(line) : line \in SeqRange(DurationLinePool) \cup SeqRange(EquityLinePool)}

\* The four parsers that read parts[3]: the registry is what they make of the
\* rows that carry their tag (and, for credit spreads, a known ticker) alone.
C18_TaggedParsersFilter ==
  /\ FED_FUTURES_SNAPSHOTS = parseFedFutures(RowsTagged(durationDataCsv, <<"f", "u", "t", "u", "r", "e">>))
  /\ CREDIT_SPREAD_SERIES
       = parseCreditSpreadSeries(
           RowsTaggedAndKnown(durationDataCsv, <<"s", "p", "r", "e", "a", "d">>, SeqRange(CREDIT_SPREAD_ORDER)))
  /\ WATCHLIST_STOX_SERIES = parseWatchlistStoxSeries(RowsTagged(equityDataCsv, <<"s", "t", "o", "x">>))
  /\ INDUSTRY_SERIES = parseIndustrySeries(RowsTagged(equityDataCsv, <<"e", "i", "n", "x">>))

\* C18: in every long-format parser (futures, credit spreads, watchlist,
\* industry, major indexes, <<"E", "F", "F", "R">>) a row is accepted only if its category tag
\* equals the dataset's required tag and its ticker resolves to a known
\* instrument key of the dataset; every other row contributes no point.  For
\* the two datasets whose tag the text does not name, any one tag may be the
\* required one.
C18_TagAndTickerFilter ==
  /\ C18_TaggedParsersFilter
  /\ \E tag \in LongFormatTags :
       MAJOR_INDEX_SERIES
         = parseMajorIndexSeries(
             RowsTaggedAndKnown(equityDataCsv, tag, SeqRange(MapKeys(MAJOR_ALIAS_TO_DISPLAY))))
  /\ \E tag \in LongFormatTags :
       EFFR_SERIES = parseEffrSeries(RowsTaggedAndKnown(durationDataCsv, tag, {<<"E", "F", "F", "R">>}))

\* Rows of two different tags have fed one major index, and rows of two
\* different tags the EFFR series.
C18_MajorFedByTwoTags ==
  /\ Len(equityDataCsv) = 2
  /\ RowTag(equityDataCsv[1]) # RowTag(equityDataCsv[2])
  /\ Len(MAJOR_INDEX_SERIES[<<"S", "P", "X">>]) = 2

C18_EffrFedByTwoTags ==
  /\ Len(durationDataCsv) = 2
  /\ RowTag(durationDataCsv[1]) # RowTag(durationDataCsv[2])
  /\ Len(EFFR_SERIES) = 2

\* The accepted futures rows of the file, in parse order.
FutureRows == AcceptedPoints(FutureRowContract, durationDataCsv)

\* The contract of a snapshot is the last accepted row of its date and
\* sequence, and every accepted row has its contract.
FutureLastRowWins ==
  /\ \A s \in 1..Len(FED_FUTURES_SNAPSHOTS) :
       \A c \in 1..Len(FED_FUTURES_SNAPSHOTS[s].contracts) :
         \E r \in 1..Len(FutureRows) :
           /\ FutureRows[r].time = FED_FUTURES_SNAPSHOTS[s].time
           /\ FutureRows[r].contract = FED_FUTURES_SNAPSHOTS[s].contracts[c]
           /\ \A later \in (r + 1)..Len(FutureRows) :
                \/ FutureRows[later].time # FutureRows[r].time
                \/ FutureRows[later].contract.sequence # FutureRows[r].contract.sequence
  /\ \A r \in 1..Len(FutureRows) :
       \E s \in 1..Len(FED_FUTURES_SNAPSHOTS) :
         /\ FED_FUTURES_SNAPSHOTS[s].time = FutureRows[r].time
         /\ \E c \in 1..Len(FED_FUTURES_SNAPSHOTS[s].contracts) :
              FED_FUTURES_SNAPSHOTS[s].contracts[c].sequence = FutureRows[r].contract.sequence

\* What holds of every snapshot: sequences from 1 to 12 (100..1200 in
\* hundredths), strictly ascending, hence one contract per sequence, the last
\* accepted row winning.
C19_SnapshotOrderedAndUnique ==
  /\ \A s \in 1..Len(FED_FUTURES_SNAPSHOTS) :
       LET contracts == FED_FUTURES_SNAPSHOTS[s].contracts
       IN  /\ \A c \in 1..Len(contracts) :
                contracts[c].sequence >= 100 /\ contracts[c].sequence <= 1200
           /\ \A c \in 1..(Len(contracts) - 1) :
                contracts[c].sequence < contracts[c + 1].sequence
  /\ FutureLastRowWins

\* C19: every parsed FedFutureSnapshot holds at most 12 contracts, each with
\* an integer sequence in 1..12 and at most one contract per sequence (the
\* last accepted row for a date and sequence wins), ascending by sequence.
C19_SnapshotContracts ==
  /\ C19_SnapshotOrderedAndUnique
  /\ \A s \in 1..Len(FED_FUTURES_SNAPSHOTS) :
       /\ Len(FED_FUTURES_SNAPSHOTS[s].contracts) <= 12
       /\ \A c \in 1..Len(FED_FUTURES_SNAPSHOTS[s].contracts) :
            FED_FUTURES_SNAPSHOTS[s].contracts[c].sequence % 100 = 0

\* A snapshot holds the contracts of sequence 1 and of sequence 1.5.
C19_FractionalSequence ==
  /\ Len(FED_FUTURES_SNAPSHOTS) = 1
  /\ Len(FED_FUTURES_SNAPSHOTS[1].contracts) = 2
  /\ FED_FUTURES_SNAPSHOTS[1].contracts[1].sequence = 100
  /\ FED_FUTURES_SNAPSHOTS[1].contracts[2].sequence = 150

\* A long-format row whose date serial or value fails Number.isFinite (the
\* text is not a number; blank text is the number 0 and passes).
LongRowFails(line) ==
  LET parts == parseCsvLine(line)
  IN  Number(PartAt(parts, 0)) = Null \/ Number(PartAt(parts, 4)) = Null

RowsWithoutFailing(lines) ==
  LET Keep(line) == ~LongRowFails(line)
  IN  SelectSeq(lines, Keep)

\* The cells of the treasury files that have a parseable date in their row, a
\* mapped column and a finite value: [ticker, time, value].
TreasuryGoodCells ==
  UNION {
    LET columns == TreasuryColumnsFrom(TreasuryHeader(treasuryRatesCsv[f][1]), 1)
    IN  UNION {
          LET parts == parseCsvLine(treasuryRatesCsv[f][r])
              time  == parseUsDateToUtcTime(PartAt(parts, 0))
          IN  IF time = Null THEN {}
              ELSE {[ticker |-> columns[k].ticker, time |-> time[1],
                     value |-> Number(Trim(StripQuotes(PartAt(parts, columns[k].index))))[1]] :
                      k \in {j \in 1..Len(columns) :
                               Number(Trim(StripQuotes(PartAt(parts, columns[j].index)))) # Null}}
          : r \in 2..Len(treasuryRatesCsv[f])}
    : f \in 1..Len(treasuryRatesCsv)}

\* C20: a long-format row whose value or date serial fails the finite-number
\* check is skipped without changing what the other rows give (the registry is
\* the parse of the file without such rows); a wide-format row with an
\* unparseable date gives nothing, and a cell with a non-finite value gives
\* nothing while the other mapped cells of its row give their points (the
\* dates of a treasury series are those of the good cells of its ticker, and
\* each point carries the value of one of them).
C20_BadRowsAndCellsSkipped ==
  /\ LET duration == RowsWithoutFailing(durationDataCsv)
     IN  /\ FED_FUTURES_SNAPSHOTS = parseFedFutures(duration)
         /\ CREDIT_SPREAD_SERIES = parseCreditSpreadSeries(duration)
         /\ EFFR_SERIES = parseEffrSeries(duration)
  /\ LET equity == RowsWithoutFailing(equityDataCsv)
     IN  /\ MAJOR_INDEX_SERIES = parseMajorIndexSeries(equity)
         /\ WATCHLIST_STOX_SERIES = parseWatchlistStoxSeries(equity)
         /\ INDUSTRY_SERIES = parseIndustrySeries(equity)
  /\ LET cells == TreasuryGoodCells
     IN  \A ticker \in DOMAIN TREASURY_SERIES :
           /\ {TREASURY_SERIES[ticker][i].time : i \in 1..Len(TREASURY_SERIES[ticker])}
                = {cell.time : cell \in {c \in cells : c.ticker = ticker}}
           /\ \A i \in 1..Len(TREASURY_SERIES[ticker]) :
                [ticker |-> ticker, time |-> TREASURY_SERIES[ticker][i].time,
                 value |-> TREASURY_SERIES[ticker][i].value] \in cells

\* A treasury row has N/A in its first mapped column: the second column's
\* point is there and the first column's series is empty.
C20_Witness ==
  /\ Len(treasuryRatesCsv) = 1
  /\ Len(treasuryRatesCsv[1]) = 2
  /\ treasuryRatesCsv[1][1] = TreasuryHeaderPool[1]
  /\ treasuryRatesCsv[1][2] = TreasuryLinePool[6]
  /\ TREASURY_SERIES[<<"U", "S", "1", "M">>] = <<>>
  /\ TREASURY_SERIES[<<"U", "S", "3", "M">>]
       = <<[time |-> DaysFromCivil(2025, 12, 29) * DAY_MS, value |-> 420]>>

\* An EFFR row with the value n/a comes before a good row and one with the
\* date n/a after it: the series is that of the good row alone.
C20_WitnessLongFormat ==
  /\ Len(durationDataCsv) = 3
  /\ durationDataCsv[1] = DurationLinePool[10]
  /\ durationDataCsv[2] = DurationLinePool[2]
  /\ durationDataCsv[3] = DurationLinePool[13]
  /\ EFFR_SERIES = <<[time |-> DaysFromCivil(2025, 12, 22) * DAY_MS, value |-> 408]>>

\* The cells of the treasury files under a header column whose name, quotes
\* stripped and in upper case, is in the label table, in rows with a valid
\* date: where the cell is, its instrument, the row's date and the cell's text.
WideMappedCells ==
  UNION {
    UNION {
      LET header == parseCsvLine(treasuryRatesCsv[f][1])
          parts  == parseCsvLine(treasuryRatesCsv[f][r])
          time   == parseUsDateToUtcTime(PartAt(parts, 0))
      IN  IF time = Null THEN {}
          ELSE {[file |-> f, row |-> r, column |-> h,
                 ticker |-> MapGet(TREASURY_COLUMN_TO_TICKER,
                                   toUpperCase(Trim(StripQuotes(header[h])))),
                 time |-> time[1],
                 text |-> Trim(StripQuotes(PartAt(parts, h - 1)))] :
                  h \in {g \in 1..Len(header) :
                           MapHas(TREASURY_COLUMN_TO_TICKER,
                                  toUpperCase(Trim(StripQuotes(header[g]))))}}
      : r \in 2..Len(treasuryRatesCsv[f])}
    : f \in 1..Len(treasuryRatesCsv)}

\* Cell b is read after cell a.
WideLater(a, b) ==
  \/ b.file > a.file
  \/ b.file = a.file /\ b.row > a.row
  \/ b.file = a.file /\ b.row = a.row /\ b.column > a.column

\* C21: each data row with a valid date yields, for every header column
\* whose name (quotes stripped, case-insensitive) is in the label table and
\* whose cell is a finite number, the point (row date at UTC midnight, cell
\* value) in that instrument's series (unless a cell read later sets the same
\* instrument and date), and columns not in the table contribute nothing; a
\* row dated 1/15/2025 with 4.50 under "1 MO" and 4.75 under "3 MO" yields
\* US1M = 4.50 and US3M = 4.75 at 2025-01-15 UTC.
C21_WideRowPoints ==
  LET cells == WideMappedCells
  IN  /\ \A a \in cells :
           (/\ Len(a.text) > 0
            /\ Number(a.text) # Null
            /\ ~\E b \in cells : /\ WideLater(a, b)
                                 /\ b.ticker = a.ticker /\ b.time = a.time
                                 /\ Number(b.text) # Null)
             => \E i \in 1..Len(TREASURY_SERIES[a.ticker]) :
                  TREASURY_SERIES[a.ticker][i]
                    = [time |-> a.time, value |-> Number(a.text)[1]]
      /\ \A ticker \in DOMAIN TREASURY_SERIES :
           \A i \in 1..Len(TREASURY_SERIES[ticker]) :
             \E a \in cells : a.ticker = ticker /\ a.time = TREASURY_SERIES[ticker][i].time
      /\ (/\ Len(treasuryRatesCsv) = 1
          /\ Len(treasuryRatesCsv[1]) = 2
          /\ treasuryRatesCsv[1][1] = WideHeaderPool[1]
          /\ treasuryRatesCsv[1][2] = WideLinePool[1])
           => /\ TREASURY_SERIES[<<"U", "S", "1", "M">>]
                   = <<[time |-> DaysFromCivil(2025, 1, 15) * DAY_MS, value |-> 450]>>
              /\ TREASURY_SERIES[<<"U", "S", "3", "M">>]
                   = <<[time |-> DaysFromCivil(2025, 1, 15) * DAY_MS, value |-> 475]>>

\* The file of the example has been loaded.
C21_Witness ==
  /\ treasuryRatesCsv = <<<<WideHeaderPool[1], WideLinePool[1]>>>>
  /\ TREASURY_SERIES[<<"U", "S", "1", "M">>] = <<[time |-> DaysFromCivil(2025, 1, 15) * DAY_MS, value |-> 450]>>
  /\ TREASURY_SERIES[<<"U", "S", "3", "M">>] = <<[time |-> DaysFromCivil(2025, 1, 15) * DAY_MS, value |-> 475]>>

\* Lower-case header names, quoted cells and a column that is not in the
\* table: the two mapped columns give their points, the third nothing.
C21_WitnessUnmappedColumn ==
  /\ treasuryRatesCsv = <<<<WideHeaderPool[2], WideLinePool[4]>>>>
  /\ TREASURY_SERIES[<<"U", "S", "1", "M">>] = <<[time |-> DaysFromCivil(2025, 1, 16) * DAY_MS, value |-> 440]>>
  /\ TREASURY_SERIES[<<"U", "S", "3", "M">>] = <<[time |-> DaysFromCivil(2025, 1, 16) * DAY_MS, value |-> 490]>>
  /\ \A ticker \in DOMAIN TREASURY_SERIES : Len(TREASURY_SERIES[ticker]) <= 1

\* The mapped cells that are blank or missing (the row is shorter than the
\* column's index) and share their instrument and date with no other cell.
WideLoneBlankCells ==
  LET cells == WideMappedCells
  IN  {a \in cells :
         /\ Len(a.text) = 0
         /\ ~\E b \in cells : b # a /\ b.ticker = a.ticker /\ b.time = a.time}

\* C27: a wide-format row whose cell for a mapped column is empty or missing
\* produces no point for that instrument on that date, in the registry's
\* parser and in RatesAndYield's; in particular no point of value 0.
C27_BlankCellGivesNoPoint ==
  \A a \in WideLoneBlankCells :
    /\ \A i \in 1..Len(TREASURY_SERIES[a.ticker]) :
         TREASURY_SERIES[a.ticker][i].time # a.time
    /\ \A i \in 1..Len(parseTreasuryInstrumentSeries(treasuryRatesCsv)[a.ticker]) :
         parseTreasuryInstrumentSeries(treasuryRatesCsv)[a.ticker][i].time # a.time

\* The row 1/15/2025,,4.80 under the header Date,"1 MO","3 MO": US1M has the
\* point 0.00 at 2025-01-15.
C27_BlankCellReadAsZero ==
  /\ treasuryRatesCsv = <<<<WideHeaderPool[1], WideLinePool[2]>>>>
  /\ TREASURY_SERIES[<<"U", "S", "1", "M">>] = <<[time |-> DaysFromCivil(2025, 1, 15) * DAY_MS, value |-> 0]>>

\* The row 1/15/2025,4.60 under the same header has no third field: US3M has
\* the point 0.00 at 2025-01-15.
C27_MissingCellReadAsZero ==
  /\ treasuryRatesCsv = <<<<WideHeaderPool[1], WideLinePool[3]>>>>
  /\ TREASURY_SERIES[<<"U", "S", "3", "M">>] = <<[time |-> DaysFromCivil(2025, 1, 15) * DAY_MS, value |-> 0]>>
  /\ parseTreasuryInstrumentSeries(treasuryRatesCsv)[<<"U", "S", "3", "M">>] = TREASURY_SERIES[<<"U", "S", "3", "M">>]

-----------------------------------------------------------------------------
(* Ladder claims *)

CutsRendered == cutsMemo.key # Null

CutsActiveTime == ActiveTimeOf(cutsMemo.key[1])[1]

\* The links of the ladder of the rendered selection: link 0 is the aligned
\* EFFR, link k the implied rate of the k-th quarter; Null when missing.
CutsLink(k) ==
  IF k = 0
  THEN AlignedValue(getAlignedPoint(EFFR_SERIES, CutsActiveTime, MAX_ALIGNMENT_GAP_DAYS_DEFAULT))
  ELSE ImpliedRate(
         FuturesRateByMonthYear(
           getAlignedPoint(FED_FUTURES_SNAPSHOTS, CutsActiveTime, MAX_ALIGNMENT_GAP_DAYS_DEFAULT)),
         getQuarterSequence(CutsActiveTime)[k].quarter,
         getQuarterSequence(CutsActiveTime)[k].year)

CutsRow(j) == cutsMemo.value.data.quarterRows[j]

\* C5 as stated: a missing link (the aligned EFFR or a quarter's implied
\* rate) nulls that quarter and every later quarter, and nulls the total.
C5_MissingLinkNullsAllLater ==
  CutsRendered =>
    \A k \in 0..4 :
      CutsLink(k) = Null =>
        /\ \A j \in 1..4 : j >= k => CutsRow(j).cutsBps = Null
        /\ cutsMemo.value.data.total = Null

\* C5, amended: a quarter is null exactly when its own implied rate or the
\* link just before it (the aligned EFFR for the first quarter) is missing,
\* otherwise it is the difference of the two; the total is null exactly when
\* some link is missing, otherwise it is the last implied rate less the EFFR.
C5_MissingLinkNullsItsNeighbours ==
  CutsRendered =>
    /\ Len(cutsMemo.value.data.quarterRows) = 4
    /\ \A j \in 1..4 :
         /\ CutsRow(j).cutsBps = Null <=> (CutsLink(j - 1) = Null \/ CutsLink(j) = Null)
         /\ CutsRow(j).cutsBps # Null =>
              CutsRow(j).cutsBps[1] = CutsLink(j)[1] - CutsLink(j - 1)[1]
    /\ cutsMemo.value.data.total = Null <=> (\E k \in 0..4 : CutsLink(k) = Null)
    /\ cutsMemo.value.data.total # Null =>
         cutsMemo.value.data.total[1] = CutsLink(4)[1] - CutsLink(0)[1]

\* C5 witness: the aligned EFFR is missing and the four implied rates are
\* there; the first quarter and the total are null, the later quarters are not.
C5_Witness ==
  /\ CutsRendered
  /\ CutsLink(0) = Null
  /\ \A k \in 1..4 : CutsLink(k) # Null
  /\ CutsRow(1).cutsBps = Null
  /\ \A j \in 2..4 : CutsRow(j).cutsBps # Null
  /\ cutsMemo.value.data.total = Null

\* A quarter's implied rate is missing between two that are there: that
\* quarter and the next are null, the one after has a value again.
C5_WitnessResumes ==
  /\ CutsRendered
  /\ CutsLink(0) # Null /\ CutsLink(1) = Null
  /\ CutsLink(2) # Null /\ CutsLink(3) # Null
  /\ CutsRow(1).cutsBps = Null /\ CutsRow(2).cutsBps = Null
  /\ CutsRow(3).cutsBps # Null

\* C15: when the aligned EFFR and the first, second and fourth quarters'
\* implied rates are there and the third quarter's is not, the first two
\* quarters have numeric values and the third quarter and the total are null.
C15_ThirdQuarterMissing ==
  (/\ CutsRendered
   /\ CutsLink(0) # Null /\ CutsLink(1) # Null /\ CutsLink(2) # Null
   /\ CutsLink(3) = Null /\ CutsLink(4) # Null) =>
    /\ CutsRow(1).cutsBps = Some(CutsLink(1)[1] - CutsLink(0)[1])
    /\ CutsRow(2).cutsBps = Some(CutsLink(2)[1] - CutsLink(1)[1])
    /\ CutsRow(3).cutsBps = Null
    /\ cutsMemo.value.data.total = Null

\* The case itself: only the third quarter's contract is not in the snapshot.
C15_Witness ==
  /\ CutsRendered
  /\ CutsLink(0) # Null /\ CutsLink(1) # Null /\ CutsLink(2) # Null
  /\ CutsLink(3) = Null /\ CutsLink(4) # Null
  /\ CutsRow(1).cutsBps # Null /\ CutsRow(2).cutsBps # Null
  /\ CutsRow(3).cutsBps = Null
  /\ cutsMemo.value.data.total = Null

\* The k-th quarter from the one that holds the active date, the year rolling
\* over after the fourth quarter.
LadderQuarter(k) ==
  [quarter |-> (((fnInput.date.month - 1) \div 3 + k - 1) % 4) + 1,
   year |-> fnInput.date.year + ((fnInput.date.month - 1) \div 3 + k - 1) \div 4]

\* The contract for the month that follows the end of a quarter: April, July
\* and October of its year, January of the next year for the fourth quarter.
LadderContractOf(quarter, year) ==
  CHOOSE c \in 1..Len(LadderContractMonths) :
    /\ LadderContractMonths[c].month
         = << <<"A", "P", "R">>, <<"J", "U", "L">>, <<"O", "C", "T">>, <<"J", "A", "N">> >>[quarter]
    /\ LadderContractMonths[c].yy = (IF quarter = 4 THEN year + 1 ELSE year) % 100

\* Link 0 is the EFFR, link k the implied rate (100 - price) of quarter k.
LadderLink(k) ==
  IF k = 0 THEN fnInput.effr
  ELSE 10000 - LadderPrice(LadderContractOf(LadderQuarter(k).quarter, LadderQuarter(k).year),
                           fnInput.step)

\* C16: with the aligned EFFR and the four implied rates available the
\* ladder lists the four consecutive quarters from the one that holds the
\* active date, and quarter k's value is its implied rate (100 - price of the
\* contract for the month after the quarter's end) less the previous link,
\* times 100; the previous link of the first quarter is the aligned EFFR.
C16_LadderChain ==
  fnCall.fn = "QuartlyCuts.data" =>
    /\ fnRet.effr = Some(fnInput.effr)
    /\ Len(fnRet.quarterRows) = 4
    /\ \A k \in 1..4 :
         /\ fnRet.quarterRows[k].label
              = formatQuarterLabel(LadderQuarter(k).quarter, LadderQuarter(k).year)
         /\ fnRet.quarterRows[k].cutsBps = Some(LadderLink(k) - LadderLink(k - 1))

\* The ladder of an active date in the second quarter or later: it runs into
\* the next year (Q4 reads January of the year after).
C16_Witness ==
  /\ fnCall.fn = "QuartlyCuts.data"
  /\ fnInput.date.month >= 4
  /\ LadderQuarter(4).year = fnInput.date.year + 1
  /\ fnRet.quarterRows[1].cutsBps # Null
  /\ fnRet.quarterRows[4].cutsBps # Null
  /\ fnRet.quarterRows[1].cutsBps # fnRet.quarterRows[4].cutsBps

-----------------------------------------------------------------------------
(* Week-key claims *)

\* The Monday of the Monday-to-Sunday UTC week of a day (day 0, 1970-01-01,
\* is a Thursday).
MondayOf(day) == day - ((day + 3) % 7)

\* ISO 8601: week 1 of a year is the week that holds 4 January.
IsoFirstMonday(year) == MondayOf(DaysFromCivil(year, 1, 4))

IsoWeekYear(day) ==
  CHOOSE year \in 2019..2028 : IsoFirstMonday(year) <= day /\ day < IsoFirstMonday(year + 1)

IsoWeekNumber(day) == (MondayOf(day) - IsoFirstMonday(IsoWeekYear(day))) \div 7 + 1

\* C17: two timestamps get the same key exactly when they fall in the same
\* Monday-to-Sunday UTC week, and the key is the ISO 8601 week-year and week
\* number, at year boundaries and for timestamps that are not at midnight.
C17_IsoWeekKey ==
  fnCall.fn = "getIsoWeekKeyFromTime" =>
    /\ (fnRet[1] = fnRet[2])
         <=> (MondayOf(fnInput.a \div DAY_MS) = MondayOf(fnInput.b \div DAY_MS))
    /\ fnRet[1] = <<IsoWeekYear(fnInput.a \div DAY_MS), IsoWeekNumber(fnInput.a \div DAY_MS)>>

\* Sunday 3 January 2021 at 23:00 and Monday 28 December 2020 at 00:00 share
\* the key of week 53 of 2020.
C17_Witness ==
  /\ fnCall.fn = "getIsoWeekKeyFromTime"
  /\ fnInput.a = DaysFromCivil(2021, 1, 3) * DAY_MS + (DAY_MS - 1)
  /\ fnInput.b = DaysFromCivil(2020, 12, 28) * DAY_MS
  /\ fnRet[1] = <<2020, 53>>
  /\ fnRet[2] = <<2020, 53>>

\* Tuesday 31 December 2024 belongs to week 1 of 2025, the Sunday before it
\* to week 52 of 2024.
C17_WitnessEarlyWeekOne ==
  /\ fnCall.fn = "getIsoWeekKeyFromTime"
  /\ fnInput.a = DaysFromCivil(2024, 12, 31) * DAY_MS + (DAY_MS - 1)
  /\ fnInput.b = DaysFromCivil(2024, 12, 29) * DAY_MS
  /\ fnRet = << <<2025, 1>>, <<2024, 52>> >>

\* C29: in FullWatchlist, for any parsed stox rows and any active date whose
\* snapshot time resolves, every ticker listed for that snapshot has a
\* non-null current aligned point whose time is the snapshot time, so no
\* listed row shows the "--" price placeholder.
C29_ListedTickersHaveCurrentPoint ==
  (fnCall.fn = "FullWatchlist" /\ fnCall.activeTime # Null) =>
    LET snapshotTime == resolveAlignedTime(WATCHLIST_STOX_SERIES.sortedTimes,
                                           fnCall.activeTime[1],
                                           MAX_ALIGNMENT_GAP_DAYS_DEFAULT)
        tickers == ActiveTickers(WATCHLIST_STOX_SERIES, snapshotTime[1])
    IN  snapshotTime # Null =>
          /\ Len(fnRet) = Len(tickers)
          /\ Len(tickers) > 0
          /\ \A i \in 1..Len(tickers) :
               LET current == getAlignedPoint(
                                MapGetOr(WATCHLIST_STOX_SERIES.seriesByTicker, tickers[i], <<>>),
                                snapshotTime[1], MAX_ALIGNMENT_GAP_DAYS_DEFAULT)
               IN  /\ current # Null
                   /\ current[1].time = snapshotTime[1]
                   /\ fnRet[i].ticker = tickers[i]
                   /\ fnRet[i].priceText = PriceFormat(current[1].value)
                   /\ fnRet[i].priceText # PLACEHOLDER

\* Two tickers are listed for a snapshot that is earlier than the active
\* date, and one of them has a later point as well.
C29_Witness ==
  /\ fnCall.fn = "FullWatchlist"
  /\ fnCall.activeTime = Some(DaysFromCivil(2026, 1, 12) * DAY_MS)
  /\ Len(fnRet) = 2
  /\ resolveAlignedTime(WATCHLIST_STOX_SERIES.sortedTimes, fnCall.activeTime[1],
                        MAX_ALIGNMENT_GAP_DAYS_DEFAULT) = Some(DaysFromCivil(2025, 12, 29) * DAY_MS)
  /\ \E i \in 1..Len(WATCHLIST_STOX_SERIES.seriesByTicker) :
       Len(WATCHLIST_STOX_SERIES.seriesByTicker[i][2]) = 2

\* No snapshot within reach of the active date: the table has no rows.
C29_WitnessNoSnapshot ==
  /\ fnCall.fn = "FullWatchlist"
  /\ fnCall.activeTime = Some(DaysFromCivil(2026, 2, 1) * DAY_MS)
  /\ Len(WATCHLIST_STOX_SERIES.sortedTimes) > 0
  /\ fnRet = <<>>

\* C30: in RatesAndYield, for every cycle-months input (clamped to an
\* integer in 1..36, a non-finite input giving 12) and every active date whose
\* active index resolves, the cycle extremum is non-null, is an observation
\* at or before the active observation, and its value is >= the current
\* value in high mode and <= the current value in low mode.
C30_CycleExtremum ==
  fnCall.fn = "RatesAndYield" =>
    /\ fnRet.cycleMonths \in MIN_CYCLE_MONTHS..MAX_CYCLE_MONTHS
    /\ Number(fnCall.cycleMonthsInput) = Null => fnRet.cycleMonths = DEFAULT_CYCLE_MONTHS
    /\ fnRet.activeIndex >= 0 =>
         /\ fnRet.cyclePoint # Null
         /\ \E i \in 0..fnRet.activeIndex : fnInput.series[i + 1] = fnRet.cyclePoint[1]
         /\ fnRet.cyclePoint[1].time <= fnRet.currentPoint[1].time
         /\ fnCall.cycleMode = "high"
              => fnRet.cyclePoint[1].value >= fnRet.currentPoint[1].value
         /\ fnCall.cycleMode = "low"
              => fnRet.cyclePoint[1].value <= fnRet.currentPoint[1].value

\* The shortest window, one month back from 31 March rolled over to 3 March,
\* with the active observation 21 days before the active date and an older,
\* higher observation outside the window.
C30_Witness ==
  /\ fnCall.fn = "RatesAndYield"
  /\ fnCall.cycleMode = "high"
  /\ fnRet.cycleMonths = 1
  /\ fnInput.activeTime = DaysFromCivil(2025, 3, 31) * DAY_MS
  /\ fnRet.activeIndex = 1
  /\ fnRet.currentPoint = Some([time |-> DaysFromCivil(2025, 3, 10) * DAY_MS, value |-> 100])
  /\ fnInput.series[1].value = 200
  /\ fnRet.cyclePoint = fnRet.currentPoint

\* The extremum is an earlier observation than the active one.
C30_WitnessEarlierHigh ==
  /\ fnCall.fn = "RatesAndYield"
  /\ fnCall.cycleMode = "high"
  /\ fnRet.activeIndex >= 1
  /\ fnRet.cyclePoint # Null
  /\ fnRet.cyclePoint[1].time < fnRet.currentPoint[1].time
  /\ fnRet.cyclePoint[1].value > fnRet.currentPoint[1].value

\* A text that is not a number gives 12 months.
C30_WitnessDefaultMonths ==
  /\ fnCall.fn = "RatesAndYield"
  /\ Number(fnCall.cycleMonthsInput) = Null
  /\ fnRet.cycleMonths = 12
  /\ fnRet.activeIndex >= 0

-----------------------------------------------------------------------------
(* Registry and presentation claims *)

GetterSnapshot(fn) ==
  CASE fn = "getTreasurySeries" -> parseTreasurySeries(treasuryRatesCsv)
    [] fn = "getFedFuturesSnapshots" -> parseFedFutures(durationDataCsv)
    [] fn = "getCreditSpreadSeries" -> parseCreditSpreadSeries(durationDataCsv)
    [] fn = "getEffrSeries" -> parseEffrSeries(durationDataCsv)
    [] fn = "getMajorIndexSeries" -> parseMajorIndexSeries(equityDataCsv)
    [] fn = "getWatchlistStoxSeries" -> parseWatchlistStoxSeries(equityDataCsv)
    [] fn = "getIndustrySeries" -> parseIndustrySeries(equityDataCsv)

\* Every getter call returned the full parse of the raw files.
GettersReturnSnapshot ==
  getterRet # NoGetter => getterRet.value = GetterSnapshot(getterRet.fn)

\* A memo is what its computation gives for the selection it was made for.
MemosRepeat ==
  /\ cutsMemo # NoMemo =>
       cutsMemo.value = CutsRender(QuartlyCutsData(ActiveTimeOf(cutsMemo.key[1]),
                                                   EFFR_SERIES, FED_FUTURES_SNAPSHOTS))
  /\ majorMemo # NoMemo =>
       majorMemo.value = MajorIndexRows(ActiveTimeOf(majorMemo.key[1]), MAJOR_INDEX_SERIES)
  /\ industryMemo # NoMemo =>
       industryMemo.value = IndustryRows(ActiveTimeOf(industryMemo.key[1]), INDUSTRY_SERIES)

MajorSeriesOf(i) == MAJOR_INDEX_SERIES[MAJOR_INDEX_ORDER[i]]

MajorActiveTime == ActiveTimeOf(majorMemo.key[1])[1]

\* The value of the point the row's series aligns to `weeksBack` weeks before
\* the rendered selection, or Null on an alignment miss.
MajorAligned(i, weeksBack) ==
  AlignedValue(getAlignedPoint(MajorSeriesOf(i), MajorActiveTime - weeksBack * 7 * DAY_MS,
                               MAX_ALIGNMENT_GAP_DAYS_DEFAULT))

IndustryActiveTime == ActiveTimeOf(industryMemo.key[1])[1]

IndustryAligned(series, weeksBack) ==
  AlignedValue(getAlignedPoint(series, IndustryActiveTime - weeksBack * 7 * DAY_MS,
                               MAX_ALIGNMENT_GAP_DAYS_DEFAULT))

RegionShowsPlaceholders(series, metrics) ==
  /\ IndustryAligned(series, 0) = Null => metrics.priceText = PLACEHOLDER
  /\ computePercentChange(IndustryAligned(series, 0), IndustryAligned(series, 1)) = Null
       => metrics.weekChangeText = PLACEHOLDER
  /\ computePercentChange(IndustryAligned(series, 1), IndustryAligned(series, 2)) = Null
       => metrics.lastWeekChangeText = PLACEHOLDER

\* C10: wherever an alignment miss makes a derived value null, the cell shows
\* the placeholder "--": the week change and last-week change of MajorIndexes
\* and IndustryOverview, and the EFFR, quarter and total cells of QuartlyCuts.
C10_NullRendersPlaceholder ==
  /\ majorMemo # NoMemo =>
       \A i \in 1..Len(MAJOR_INDEX_ORDER) :
         /\ MajorAligned(i, 0) = Null => majorMemo.value[i].priceText = PLACEHOLDER
         /\ computePercentChange(MajorAligned(i, 0), MajorAligned(i, 1)) = Null
              => majorMemo.value[i].weekChangeText = PLACEHOLDER
         /\ computePercentChange(MajorAligned(i, 1), MajorAligned(i, 2)) = Null
              => majorMemo.value[i].lastWeekChangeText = PLACEHOLDER
  /\ industryMemo # NoMemo =>
       \A i \in 1..Len(INDUSTRIES) :
         /\ RegionShowsPlaceholders(INDUSTRY_SERIES[INDUSTRIES[i].id].us, industryMemo.value[i].us)
         /\ RegionShowsPlaceholders(INDUSTRY_SERIES[INDUSTRIES[i].id].eu, industryMemo.value[i].eu)
  /\ cutsMemo # NoMemo =>
       /\ cutsMemo.value.data.effr = Null => cutsMemo.value.view.effrText = PLACEHOLDER
       /\ cutsMemo.value.data.total = Null => cutsMemo.value.view.totalText = PLACEHOLDER
       /\ \A j \in 1..Len(cutsMemo.value.data.quarterRows) :
            cutsMemo.value.data.quarterRows[j].cutsBps = Null
              => cutsMemo.value.view.quarterCells[j].text = PLACEHOLDER

\* The state C10 is about: the current point is found, the last-week point is
\* not, and the week-change cell shows 0.00%.
C10_MissShownAsZero ==
  /\ majorMemo # NoMemo
  /\ \E i \in 1..Len(MAJOR_INDEX_ORDER) :
       /\ MajorAligned(i, 0) # Null
       /\ MajorAligned(i, 1) = Null
       /\ majorMemo.value[i].weekChangeText = <<"0", ".", "0", "0", "%">>

\* The ladder's cells do show the placeholder for a null value.
C10_CutsShowPlaceholder ==
  cutsMemo # NoMemo =>
    /\ cutsMemo.value.data.effr = Null => cutsMemo.value.view.effrText = PLACEHOLDER
    /\ cutsMemo.value.data.total = Null => cutsMemo.value.view.totalText = PLACEHOLDER
    /\ \A j \in 1..Len(cutsMemo.value.data.quarterRows) :
         cutsMemo.value.data.quarterRows[j].cutsBps = Null
           => cutsMemo.value.view.quarterCells[j].text = PLACEHOLDER

====
